---- MODULE Spec2Model ----
(***************************************************************************)
(* A model of the RDS graph engine of madios (ADIOS grammar induction):    *)
(* graph construction, the matrix and significance kernels, bootstrap and  *)
(* generalisation, the rewiring operator, the distillation driver and the  *)
(* probability estimator.                                                  *)
(*                                                                         *)
(* Conventions.  Node ids, path offsets, matrix rows/columns and parse     *)
(* tree positions are 0-based as in the C++ source; they are stored in     *)
(* TLA+ sequences, which are 1-based, and read with At(s, i) == s[i+1].    *)
(* Doubles are modelled by exact values: flows and descents are pairs      *)
(* <<n, d>> read as n/d, with <<0,0>> for NaN and <<1,0>> for +infinity;   *)
(* p-values are pairs of arbitrary-precision naturals.                     *)
(***************************************************************************)
EXTENDS Integers, Sequences, FiniteSets, TLC

VARIABLES heap, nodes, paths, trees, corpusSize, counts,
          significant_patterns, rewiring_ops,
          sequences, params, pc, pathIndex, foundPattern, calls,
          temp_graph

vars == <<heap, nodes, paths, trees, corpusSize, counts,
          significant_patterns, rewiring_ops,
          sequences, params, pc, pathIndex, foundPattern, calls,
          temp_graph>>

(***************************************************************************)
(* Bounds of the model.                                                    *)
(***************************************************************************)
MaxSentences == 2
MaxSentenceLen == 3
NumTokens == 2
MaxDistillCalls == 2
MaxCloneRewires == 1

(***************************************************************************)
(* Generic helpers.                                                        *)
(***************************************************************************)
At(s, i) == s[i + 1]

Last(s) == s[Len(s)]

Min(a, b) == IF a < b THEN a ELSE b

Max(a, b) == IF a < b THEN b ELSE a

\* s[a..b] with 0-based inclusive bounds
Slice(s, a, b) == SubSeq(s, a + 1, b + 1)

SetAt(s, i, v) == [s EXCEPT ![i + 1] = v]

Contains(s, v) == \E i \in 1..Len(s) : s[i] = v

\* <<Op(lo), ..., Op(hi - 1)>>, built as a tuple at once
Tabulate(Op(_), lo, hi) == [i \in 1..(hi - lo) |-> Op(lo + i - 1)] \o <<>>

\* Body(v) with v evaluated first.  TLC evaluates an operator argument where
\* it is first needed, and a loop that hands an unevaluated accumulator to
\* its next iteration nests the evaluation of all iterations.  The results
\* of the steps of an operation are named this way, in the order of the
\* source
Force(v, Body(_)) == CASE v = v -> Body(v)

RECURSIVE SumSeq(_)
SumSeq(s) == IF s = <<>> THEN 0 ELSE s[1] + SumSeq(Tail(s))

RECURSIVE Concat(_)
Concat(ss) == IF ss = <<>> THEN <<>> ELSE ss[1] \o Concat(Tail(ss))

(***************************************************************************)
(* Arbitrary-precision naturals: little-endian digit sequences in base     *)
(* BigBase without leading zeros (zero is the empty sequence).  They carry *)
(* the binomial tails, whose exact numerators and denominators exceed the  *)
(* machine integers of the model checker.                                  *)
(***************************************************************************)
BigBase == 100 * 100

\* digit i (from 0, the least significant) of x
Digit(x, i) == IF i < Len(x) THEN x[i + 1] ELSE 0

\* x without its leading zeros
BigTrim(x) ==
    LET nonzero == {i \in 1..Len(x) : x[i] # 0}
    IN IF nonzero = {} THEN <<>>
       ELSE SubSeq(x, 1, CHOOSE m \in nonzero : \A i \in nonzero : i <= m)

\* a machine integer as a big natural
BigOf(n) == BigTrim(<<n % BigBase, (n \div BigBase) % BigBase, n \div (BigBase * BigBase)>>)

\* the carry into digit k of x + y: some lower digit overflows and every
\* digit between passes the carry on
BigCarry(x, y, k) ==
    \E j \in 0..(k - 1) :
       /\ Digit(x, j) + Digit(y, j) >= BigBase
       /\ \A i \in (j + 1)..(k - 1) : Digit(x, i) + Digit(y, i) = BigBase - 1

BigAdd(x, y) ==
    BigTrim(Tabulate(LAMBDA k : (Digit(x, k) + Digit(y, k)
                                 + (IF BigCarry(x, y, k) THEN 1 ELSE 0)) % BigBase,
                     0, Max(Len(x), Len(y)) + 1))

\* x * k for a natural k < BigBase: the low and the high halves of the
\* digit products, added
BigMulSmall(x, k) ==
    BigAdd(Tabulate(LAMBDA i : (Digit(x, i) * k) % BigBase, 0, Len(x)),
           <<0>> \o Tabulate(LAMBDA i : (Digit(x, i) * k) \div BigBase, 0, Len(x)))

\* x * BigBase^j
BigShift(x, j) == IF x = <<>> THEN <<>> ELSE Tabulate(LAMBDA i : 0, 0, j) \o x

\* Term(lo) + ... + Term(hi - 1), added pairwise by halves
RECURSIVE BigSum(_, _, _)
BigSum(Term(_), lo, hi) ==
    IF hi <= lo THEN <<>>
    ELSE IF hi = lo + 1 THEN Term(lo)
    ELSE Force(BigSum(Term, lo, (lo + hi) \div 2), LAMBDA left :
         Force(BigSum(Term, (lo + hi) \div 2, hi), LAMBDA right :
               BigAdd(left, right)))

BigMul(x, y) ==
    BigSum(LAMBDA j : BigShift(BigMulSmall(x, Digit(y, j)), j), 0, Len(y))

\* k^e for a natural k < BigBase, by repeated squaring
RECURSIVE BigPowSmall(_, _)
BigPowSmall(k, e) ==
    IF e = 0 THEN <<1>>
    ELSE Force(BigPowSmall(k, e \div 2), LAMBDA half :
         Force(BigMul(half, half), LAMBDA square :
               IF e % 2 = 0 THEN square ELSE BigMulSmall(square, k)))

\* compare at the most significant digit that differs
BigLess(x, y) ==
    IF Len(x) # Len(y) THEN Len(x) < Len(y)
    ELSE \E i \in 1..Len(x) :
            /\ x[i] < y[i]
            /\ \A j \in (i + 1)..Len(x) : x[j] = y[j]

(***************************************************************************)
(* Big rationals <<num, den>> (den > 0) for p-values and alpha.            *)
(***************************************************************************)
QOf(n, d) == <<BigOf(n), BigOf(d)>>

QLess(a, b) ==
    Force(BigMul(a[1], b[2]), LAMBDA left :
    Force(BigMul(b[1], a[2]), LAMBDA right :
          BigLess(left, right)))

QMax(a, b) == IF QLess(a, b) THEN b ELSE a

QMin(a, b) == IF QLess(b, a) THEN b ELSE a

QOne == QOf(1, 1)

QZero == QOf(0, 1)

\* the value 2.0 that marks "no p-value" in the source
QTwo == QOf(2, 1)

(***************************************************************************)
(* Doubles holding flows and descents: <<n, d>> is n/d; d = 0 encodes the  *)
(* IEEE special values (0/0 = NaN, x/0 = +inf for x > 0).                  *)
(***************************************************************************)
\* the greatest common divisor of naturals that are not both 0
Gcd(a, b) ==
    IF a = 0 THEN b
    ELSE IF b = 0 THEN a
    ELSE LET common == {g \in 1..Min(a, b) : a % g = 0 /\ b % g = 0}
         IN CHOOSE g \in common : \A h \in common : h <= g

DNorm(n, d) ==
    IF d = 0 THEN (IF n = 0 THEN <<0, 0>> ELSE <<1, 0>>)
    ELSE <<n \div Gcd(n, d), d \div Gcd(n, d)>>

DOf(n, d) == DNorm(n, d)

DIsNaN(x) == x[1] = 0 /\ x[2] = 0

\* IEEE division of non-negative doubles
DDiv(a, b) == DNorm(a[1] * b[2], a[2] * b[1])

\* a < b on doubles: false when either is NaN
DLess(a, b) ==
    /\ ~DIsNaN(a)
    /\ ~DIsNaN(b)
    /\ a[2] # 0
    /\ (b[2] = 0 \/ a[1] * b[2] < b[1] * a[2])

(***************************************************************************)
(* Lexicon units live on the heap; a node owns its unit through the        *)
(* address held in its lexicon field (std::unique_ptr<LexiconUnit>).       *)
(* The payload of a unit is a sequence: empty for Start and End, the token *)
(* for a BasicSymbol, the child ids of a SignificantPattern, the member    *)
(* ids of an EquivalenceClass.                                             *)
(***************************************************************************)
NullGraph == [null |-> TRUE]

\* operator new: an address not in use
NewAddress(h) == CHOOSE a \in 1..(Cardinality(DOMAIN h) + 1) : a \notin DOMAIN h

HeapPut(h, a, unit) == (a :> unit) @@ h

\* operator delete
RECURSIVE HeapKeep(_, _)
HeapKeep(h, addrs) ==
    IF addrs = {} THEN <<>>
    ELSE LET a == CHOOSE x \in addrs : TRUE
         IN (a :> h[a]) @@ HeapKeep(h, addrs \ {a})

HeapFree(h, addrs) == HeapKeep(h, (DOMAIN h) \ addrs)

\* RDSNode(lexicon, type): takes ownership of a freshly allocated unit
RDSNode(address, type) ==
    [type |-> type, lexicon |-> address, connections |-> <<>>, parents |-> <<>>]

\* the payload of the unit owned by node id of graph G (no payload is left
\* to read once the unit has been deleted)
Lexicon(G, id) ==
    LET address == At(G.nodes, id).lexicon
    IN IF address \in DOMAIN G.heap THEN G.heap[address] ELSE <<>>

NodeType(G, id) == At(G.nodes, id).type

\* a Pattern or EquivalenceClass written over the unit of the last node of
\* its kind instead of being pushed
PushNodeOverLast(G, unit, type) ==
    IF type \in {"SP", "EC"} /\ Last(G.nodes).type = type
    THEN [G EXCEPT !.heap = HeapPut(G.heap, Last(G.nodes).lexicon, unit)]
    ELSE LET a == NewAddress(G.heap)
         IN [G EXCEPT !.heap = HeapPut(G.heap, a, unit),
                      !.nodes = Append(G.nodes, RDSNode(a, type))]

\* nodes.push_back(RDSNode(std::make_unique<T>(unit), type))
PushNode(G, unit, type) ==
    LET a == NewAddress(G.heap)
    IN [G EXCEPT !.heap = HeapPut(G.heap, a, unit),
                 !.nodes = Append(G.nodes, RDSNode(a, type))]

(***************************************************************************)
(* SearchPath                                                              *)
(***************************************************************************)
\* SearchPath::rewire erasing from one position too early
SearchPathRewireFromBefore(path, start, finish, node) ==
    SubSeq(path, 1, start - 1) \o <<node>> \o SubSeq(path, finish + 2, Len(path))

\* SearchPath::rewire: erase [start, finish] and insert node at start
SearchPathRewire(path, start, finish, node) ==
    SubSeq(path, 1, start) \o <<node>> \o SubSeq(path, finish + 2, Len(path))

\* SearchPath::substitute
SearchPathSubstitute(path, start, finish, segment) ==
    SubSeq(path, 1, start) \o segment \o SubSeq(path, finish + 2, Len(path))

(***************************************************************************)
(* SignificantPattern and EquivalenceClass                                 *)
(***************************************************************************)
\* SignificantPattern::find: the first index holding unit
RECURSIVE FindFrom(_, _, _)
FindFrom(sp, unit, i) ==
    IF i >= Len(sp) THEN Len(sp)
    ELSE IF At(sp, i) = unit THEN i
    ELSE FindFrom(sp, unit, i + 1)

SignificantPatternFind(sp, unit) == FindFrom(sp, unit, 0)

\* EquivalenceClass::has
EquivalenceClassHas(ec, unit) == Contains(ec, unit)

\* EquivalenceClass::add
EquivalenceClassAdd(ec, unit) ==
    IF EquivalenceClassHas(ec, unit) THEN ec ELSE Append(ec, unit)

\* EquivalenceClass::computeOverlapEC: the units of other that this has
RECURSIVE OverlapFrom(_, _, _, _)
OverlapFrom(this, other, i, overlap) ==
    IF i >= Len(other) THEN overlap
    ELSE OverlapFrom(this, other, i + 1,
                     IF EquivalenceClassHas(this, At(other, i))
                     THEN EquivalenceClassAdd(overlap, At(other, i))
                     ELSE overlap)

ComputeOverlapEC(this, other) == OverlapFrom(this, other, 0, <<>>)

(***************************************************************************)
(* ParseTree                                                               *)
(***************************************************************************)
\* ParseNode() leaves the root's value uninitialised: the values it may hold,
\* one that is no node's index and one that is a node's index
RootValues == {0 - 1, 2}

ParseNode(value, parent) == [value |-> value, parent |-> parent, children |-> <<>>]

\* ParseTree(values): every value a direct child of the root
ParseTreeOf(values, root) ==
    <<[value |-> root, parent |-> <<0, 0>>,
       children |-> Tabulate(LAMBDA i : i, 1, Len(values) + 1)]>>
    \o Tabulate(LAMBDA i : ParseNode(At(values, i), <<0, i>>), 0, Len(values))

\* rewireChildren leaving the last subsumed child in the list
RewireChildrenKeepingLast(children, start, finish, new_node) ==
    SubSeq(children, 1, start) \o <<new_node>> \o SubSeq(children, finish + 1, Len(children))

\* ParseNode::rewireChildren on the child list
RewireChildren(children, start, finish, new_node) ==
    SubSeq(children, 1, start) \o <<new_node>> \o SubSeq(children, finish + 2, Len(children))

\* ParseTree::rewire that puts the new node in place of the subsumed nodes
\* and does not hang them below it
ParseTreeRewireAsLeaf(tree, start, finish, new_value) ==
    Append([tree EXCEPT ![1].children =
                           RewireChildren(tree[1].children, start, finish, Len(tree))],
           ParseNode(new_value, <<0, 0>>))

\* ParseTree::rewire hanging the subsumed nodes below the new node in
\* reverse order
ParseTreeRewireReversed(tree, start, finish, new_value) ==
    LET newIndex == Len(tree)
        subsumed == Slice(tree[1].children, start, finish)
        reversed == [k \in 1..Len(subsumed) |-> subsumed[Len(subsumed) + 1 - k]]
        added == [value |-> new_value, parent |-> <<0, 0>>, children |-> reversed]
        grown == Append(tree, added)
    IN Tabulate(LAMBDA k :
                  IF k = 0
                  THEN [At(grown, 0) EXCEPT
                          !.children = RewireChildren(tree[1].children, start, finish,
                                                      newIndex)]
                  ELSE IF Contains(reversed, k)
                  THEN [At(grown, k) EXCEPT
                          !.parent = <<newIndex, FindFrom(reversed, k, 0)>>]
                  ELSE At(grown, k),
                0, Len(grown))

\* ParseTree::rewire
ParseTreeRewire(tree, start, finish, new_value) ==
    LET newIndex == Len(tree)
        subsumed == Slice(tree[1].children, start, finish)
        added == [value |-> new_value, parent |-> <<0, 0>>, children |-> subsumed]
        grown == Append(tree, added)
    IN Tabulate(LAMBDA k :
                  IF k = 0
                  THEN [At(grown, 0) EXCEPT
                          !.children = RewireChildren(tree[1].children, start, finish,
                                                      newIndex)]
                  ELSE IF Contains(subsumed, k)
                  THEN [At(grown, k) EXCEPT
                          !.parent = <<newIndex, FindFrom(subsumed, k, 0)>>]
                  ELSE At(grown, k),
                0, Len(grown))

(***************************************************************************)
(* RDSGraph::updateAllConnections                                          *)
(***************************************************************************)
\* the connections pushed for node n while scanning path i from offset j
RECURSIVE PathConnections(_, _, _, _)
PathConnections(path, i, j, n) ==
    IF j >= Len(path) THEN <<>>
    ELSE (IF At(path, j) = n THEN <<<<i, j>>>> ELSE <<>>)
         \o PathConnections(path, i, j + 1, n)

RECURSIVE AllPathConnections(_, _, _)
AllPathConnections(ps, i, n) ==
    IF i >= Len(ps) THEN <<>>
    ELSE PathConnections(At(ps, i), i, 0, n) \o AllPathConnections(ps, i + 1, n)

\* the parent entries that node i pushes to node n
RECURSIVE ParentEntries(_, _, _, _, _)
ParentEntries(type, unit, i, j, n) ==
    IF j >= Len(unit) THEN <<>>
    ELSE (IF At(unit, j) = n
          THEN (IF type = "SP" THEN <<<<i, SignificantPatternFind(unit, At(unit, j))>>>>
                ELSE <<<<i, 0>>>>)
          ELSE <<>>)
         \o ParentEntries(type, unit, i, j + 1, n)

RECURSIVE AllParentEntries(_, _, _)
AllParentEntries(G, i, n) ==
    IF i >= Len(G.nodes) THEN <<>>
    ELSE (IF NodeType(G, i) \in {"SP", "EC"}
          THEN ParentEntries(NodeType(G, i), Lexicon(G, i), i, 0, n)
          ELSE <<>>)
         \o AllParentEntries(G, i + 1, n)

RECURSIVE SumPathSizes(_)
SumPathSizes(ps) == IF ps = <<>> THEN 0 ELSE Len(ps[1]) + SumPathSizes(Tail(ps))

\* updateAllConnections without the loop that empties the lists first
UpdateAllConnectionsKeepingOld(G) ==
    [G EXCEPT
       !.corpusSize = SumPathSizes(G.paths),
       !.nodes = Tabulate(LAMBDA n :
                            [At(G.nodes, n) EXCEPT
                               !.connections = @ \o AllPathConnections(G.paths, 0, n),
                               !.parents = @ \o AllParentEntries(G, 0, n)],
                          0, Len(G.nodes))]

\* updateAllConnections without corpusSize = 0 before the paths are summed
UpdateAllConnectionsAddingUp(G) ==
    [G EXCEPT
       !.corpusSize = @ + SumPathSizes(G.paths),
       !.nodes = Tabulate(LAMBDA n :
                            [At(G.nodes, n) EXCEPT
                               !.connections = AllPathConnections(G.paths, 0, n),
                               !.parents = AllParentEntries(G, 0, n)],
                          0, Len(G.nodes))]

\* void RDSGraph::updateAllConnections()
UpdateAllConnections(G) ==
    [G EXCEPT
       !.corpusSize = SumPathSizes(G.paths),
       !.nodes = Tabulate(LAMBDA n :
                            [At(G.nodes, n) EXCEPT
                               !.connections = AllPathConnections(G.paths, 0, n),
                               !.parents = AllParentEntries(G, 0, n)],
                          0, Len(G.nodes))]

(***************************************************************************)
(* RDSGraph::buildInitialGraph                                             *)
(***************************************************************************)
\* scan one sentence: st = [lexicon, G, currentPath]; lexicon is the
\* temporary interning vector (0 stands for the two padding entries)
RECURSIVE InternSentence(_, _, _)
InternSentence(st, sentence, j) ==
    IF j >= Len(sentence) THEN st
    ELSE LET tok == At(sentence, j)
             found == FindFrom(st.lexicon, tok, 0)
         IN Force(IF found = Len(st.lexicon)
                  THEN [lexicon |-> Append(st.lexicon, tok),
                        G |-> PushNode(st.G, <<tok>>, "Symbol"),
                        currentPath |-> Append(st.currentPath, Len(st.lexicon))]
                  ELSE [st EXCEPT !.currentPath = Append(st.currentPath, found)],
                  LAMBDA st1 : InternSentence(st1, sentence, j + 1))

RECURSIVE InternSequences(_, _, _)
InternSequences(st, seqs, i) ==
    IF i >= Len(seqs) THEN st
    ELSE Force(InternSentence([st EXCEPT !.currentPath = <<0>>], At(seqs, i), 0),
               LAMBDA s1 :
         Force([s1 EXCEPT !.G = [s1.G EXCEPT
                                   !.paths = Append(s1.G.paths,
                                                    Append(s1.currentPath, 1))]],
               LAMBDA st1 : InternSequences(st1, seqs, i + 1)))

\* RDSGraph::RDSGraph(): the empty graph
EmptyGraph ==
    [heap |-> <<>>, nodes |-> <<>>, paths |-> <<>>, trees |-> <<>>,
     corpusSize |-> 0, counts |-> <<>>, significant_patterns |-> <<>>,
     rewiring_ops |-> 0]

BuildInitialGraph(seqs, root) ==
    Force(InternSequences([lexicon |-> <<0, 0>>,
                           G |-> PushNode(PushNode(EmptyGraph, <<>>, "Start"), <<>>, "End"),
                           currentPath |-> <<>>],
                          seqs, 0),
          LAMBDA st :
    Force(UpdateAllConnections(st.G), LAMBDA g1 :
          [g1 EXCEPT !.trees = Tabulate(LAMBDA i : ParseTreeOf(At(g1.paths, i), root),
                                        0, Len(g1.paths))]))

(***************************************************************************)
(* Matrix kernel                                                           *)
(***************************************************************************)
\* element (i, j) of a matrix stored as a sequence of rows
M(mat, i, j) == mat[i + 1][j + 1]

\* RDSGraph::getAllNodeConnections
RECURSIVE MemberConnections(_, _, _)
MemberConnections(G, ec, i) ==
    IF i >= Len(ec) THEN <<>>
    ELSE At(G.nodes, At(ec, i)).connections \o MemberConnections(G, ec, i + 1)

GetAllNodeConnections(G, nodeIndex) ==
    At(G.nodes, nodeIndex).connections
    \o (IF NodeType(G, nodeIndex) = "EC"
        THEN MemberConnections(G, Lexicon(G, nodeIndex), 0)
        ELSE <<>>)

\* the element test comparing ids only
ElementMatchesById(G, wanted, actual) == wanted = actual

\* the element test of filterConnections: an EC on the search path matches
\* any of its members, every other node only itself
ElementMatches(G, wanted, actual) ==
    IF NodeType(G, wanted) = "EC"
    THEN EquivalenceClassHas(Lexicon(G, wanted), actual)
    ELSE wanted = actual

\* the inner loop of filterConnections: count reaches 0
RECURSIVE SegmentMatches(_, _, _, _, _)
SegmentMatches(G, search_path, cur_path, from, j) ==
    IF j >= Len(search_path) THEN TRUE
    ELSE /\ ElementMatches(G, At(search_path, j), At(At(G.paths, cur_path), j + from))
         /\ SegmentMatches(G, search_path, cur_path, from, j + 1)

\* RDSGraph::filterConnections
RECURSIVE FilterConnections(_, _, _, _)
FilterConnections(G, init_cons, start_offset, search_path) ==
    IF init_cons = <<>> THEN <<>>
    ELSE LET cur_path == init_cons[1][1]
             cur_pos == init_cons[1][2]
         IN (IF /\ ~(cur_pos + start_offset + Len(search_path)
                       > Len(At(G.paths, cur_path)))
                /\ SegmentMatches(G, search_path, cur_path, cur_pos + start_offset, 0)
             THEN <<init_cons[1]>> ELSE <<>>)
            \o FilterConnections(G, Tail(init_cons), start_offset, search_path)

\* column i of the connection matrix from the diagonal down:
\* <<connections(i,i), connections(i+1,i), ..., connections(dim-1,i)>>
RECURSIVE ColumnFrom(_, _, _, _)
ColumnFrom(G, search_path, i, col) ==
    IF i + Len(col) >= Len(search_path) THEN col
    ELSE Force(Append(col, FilterConnections(G, Last(col), Len(col),
                                             <<At(search_path, i + Len(col))>>)),
               LAMBDA col1 : ColumnFrom(G, search_path, i, col1))

\* RDSGraph::computeConnectionMatrix
ComputeConnectionMatrix(G, search_path) ==
    Force(Tabulate(LAMBDA i : ColumnFrom(G, search_path, i,
                                <<GetAllNodeConnections(G, At(search_path, i))>>),
                   0, Len(search_path)),
          LAMBDA cols :
          Tabulate(LAMBDA i :
                     Tabulate(LAMBDA j : IF i >= j THEN cols[j + 1][i - j + 1]
                                                    ELSE cols[i + 1][j - i + 1],
                              0, Len(search_path)),
                   0, Len(search_path)))

\* the sizes of the connection lists
ConnectionSizes(connections) ==
    LET dim == Len(connections)
    IN Tabulate(LAMBDA i : Tabulate(LAMBDA j : Len(M(connections, i, j)), 0, dim), 0, dim)

\* RDSGraph::computeDescentsMatrix: the flows (P_R and P_L)
ComputeFlows(G, sizes) ==
    LET dim == Len(sizes)
    IN Tabulate(LAMBDA i :
                  Tabulate(LAMBDA j :
                             IF i > j THEN DDiv(DOf(M(sizes, i, j), 1), DOf(M(sizes, i - 1, j), 1))
                             ELSE IF i < j THEN DDiv(DOf(M(sizes, i, j), 1), DOf(M(sizes, i + 1, j), 1))
                             ELSE DDiv(DOf(M(sizes, i, j), 1), DOf(G.corpusSize, 1)),
                           0, dim),
                0, dim)

\* RDSGraph::computeDescentsMatrix: the descents (D_R and D_L)
ComputeDescents(flows) ==
    LET dim == Len(flows)
    IN Tabulate(LAMBDA i :
                  Tabulate(LAMBDA j :
                             IF i > j THEN DDiv(M(flows, i, j), M(flows, i - 1, j))
                             ELSE IF i < j THEN DDiv(M(flows, i, j), M(flows, i + 1, j))
                             ELSE DOf(1, 1),
                           0, dim),
                0, dim)

(***************************************************************************)
(* Significance kernel                                                     *)
(***************************************************************************)
RECURSIVE Choose(_, _)
Choose(n, k) == IF k = 0 THEN 1 ELSE (Choose(n, k - 1) * (n - k + 1)) \div k

\* numerator of binom(k, n, a/b) over the denominator b^n:
\* C(n,k) a^k (b-a)^(n-k)
BinomNumerator(k, n, a, b) ==
    Force(BigPowSmall(a, k), LAMBDA successes :
    Force(BigPowSmall(b - a, n - k), LAMBDA failures :
    Force(BigMul(successes, failures), LAMBDA outcomes :
          BigMul(outcomes, BigOf(Choose(n, k))))))

\* the numerators of binom(i, n, a/b) for i = 0..upto, added
BinomTail(upto, n, a, b) ==
    BigSum(LAMBDA i : BinomNumerator(i, n, a, b), 0, upto + 1)

\* sum of binom(i, patternOccurences, eta * flow) for i = 0..descentOccurences,
\* clamped to [0, 1]
Significance(patternOccurences, descentOccurences, eta, flow) ==
    LET p == DNorm(eta[1] * flow[1], eta[2] * flow[2])
    IN Force(<<BinomTail(descentOccurences, patternOccurences, p[1], p[2]),
               BigPowSmall(p[2], patternOccurences)>>,
             LAMBDA sum : QMin(QMax(sum, QZero), QOne))

\* RDSGraph::computeRightSignificance
ComputeRightSignificance(sizes, flows, row, col, eta) ==
    Significance(M(sizes, row - 1, col), M(sizes, row, col), eta, M(flows, row - 1, col))

\* RDSGraph::computeLeftSignificance
ComputeLeftSignificance(sizes, flows, row, col, eta) ==
    Significance(M(sizes, row + 1, col), M(sizes, row, col), eta, M(flows, row + 1, col))

\* pvalueCache as the column loops read it.  An entry starts as 2.0 and is
\* computed the first time a loop reaches it; a loop reaches (row, col) only
\* where descents(row, col) < eta, below the diagonal for a right descent
\* and above it for a left descent, and the computed value depends on
\* nothing but (row, col)
PvalueCache(sizes, flows, descents, eta) ==
    LET dim == Len(sizes)
    IN Tabulate(LAMBDA row :
                  Tabulate(LAMBDA col :
                             IF row = col \/ ~DLess(M(descents, row, col), eta) THEN QTwo
                             ELSE IF col < row
                             THEN ComputeRightSignificance(sizes, flows, row, col, eta)
                             ELSE ComputeLeftSignificance(sizes, flows, row, col, eta),
                           0, dim),
                0, dim)

\* the column loop shared by findBestRightDescentColumn and
\* findBestLeftDescentColumn over the columns first..last of the descent
\* row: bestColumn is the first column with the least p-value among those
\* where the descent is below eta, and the result is its p-value (2.0 when
\* no column qualifies)
DescentColumnLoop(pvalueCache, descents, row, first, last, eta) ==
    LET columns == {i \in first..last : DLess(M(descents, row, i), eta)}
        Better(i, j) == QLess(M(pvalueCache, row, i), M(pvalueCache, row, j))
    IN IF columns = {} THEN QTwo
       ELSE M(pvalueCache, row,
              CHOOSE i \in columns :
                 \A j \in columns : ~Better(j, i) /\ (j < i => Better(i, j)))

\* RDSGraph::findBestRightDescentColumn
FindBestRightDescentColumn(pvalueCache, descents, pattern, eta) ==
    DescentColumnLoop(pvalueCache, descents, pattern[2] + 1, 0, pattern[1], eta)

\* RDSGraph::findBestLeftDescentColumn
FindBestLeftDescentColumn(pvalueCache, descents, pattern, eta) ==
    DescentColumnLoop(pvalueCache, descents, pattern[1] - 1, pattern[2],
                      Len(descents) - 1, eta)

\* isPatternSignificant
IsPatternSignificant(pvalues, alpha) == QLess(pvalues[1], alpha) /\ QLess(pvalues[2], alpha)

\* operator<(SignificancePair, SignificancePair)
SignificancePairLess(a, b) == QLess(QMax(a[1], a[2]), QMax(b[1], b[2]))

\* rows i with a descent below eta in some column up to i give the candidate
\* end i itself
CandidateEndRowsAtDrop(descents, eta) ==
    LET dim == Len(descents)
    IN Concat(Tabulate(LAMBDA i :
                         IF \E j \in 0..i : DLess(M(descents, i, j), eta)
                         THEN <<i>> ELSE <<>>,
                       0, dim))

\* rows i with a descent below eta in some column left of i give the
\* candidate end i - 1
CandidateEndRows(descents, eta) ==
    LET dim == Len(descents)
    IN Concat(Tabulate(LAMBDA i :
                         IF \E j \in 0..(i - 1) : DLess(M(descents, i, j), eta)
                         THEN <<i - 1>> ELSE <<>>,
                       0, dim))

\* rows i with a descent below eta in some column right of i give the
\* candidate start i itself
CandidateStartRowsAtDrop(descents, eta) ==
    LET dim == Len(descents)
    IN Concat(Tabulate(LAMBDA i :
                         IF \E j \in (i + 1)..(dim - 1) : DLess(M(descents, i, j), eta)
                         THEN <<i>> ELSE <<>>,
                       0, dim))

\* rows i with a descent below eta in some column right of i give the
\* candidate start i + 1
CandidateStartRows(descents, eta) ==
    LET dim == Len(descents)
    IN Concat(Tabulate(LAMBDA i :
                         IF \E j \in (i + 1)..(dim - 1) : DLess(M(descents, i, j), eta)
                         THEN <<i + 1>> ELSE <<>>,
                       0, dim))

CandidatePatterns(descents, eta) ==
    Force(CandidateStartRows(descents, eta), LAMBDA starts :
    Force(CandidateEndRows(descents, eta), LAMBDA ends :
          Concat(Tabulate(LAMBDA i :
                   Concat(Tabulate(LAMBDA j :
                                     IF At(starts, i) < At(ends, j)
                                     THEN <<<<At(starts, i), At(ends, j)>>>> ELSE <<>>,
                                   0, Len(ends))),
                   0, Len(starts)))))

\* swap(front, back)
SwapFrontBack(s) ==
    IF Len(s) <= 1 THEN s
    ELSE <<Last(s)>> \o SubSeq(s, 2, Len(s) - 1) \o <<s[1]>>

\* the push with a swap also when the pair ties with the front
PushSignificantOnTie(st, pattern, pair) ==
    IF st.patterns = <<>> \/ ~SignificancePairLess(st.pvalues[1], pair)
    THEN [patterns |-> SwapFrontBack(Append(st.patterns, pattern)),
          pvalues |-> SwapFrontBack(Append(st.pvalues, pair))]
    ELSE [patterns |-> Append(st.patterns, pattern),
          pvalues |-> Append(st.pvalues, pair)]

\* patterns.push_back(pattern), pvalues.push_back(pair), and the swap that
\* brings the pair to the front when it is the first or less than the front
PushSignificant(st, pattern, pair) ==
    IF st.patterns = <<>> \/ SignificancePairLess(pair, st.pvalues[1])
    THEN [patterns |-> SwapFrontBack(Append(st.patterns, pattern)),
          pvalues |-> SwapFrontBack(Append(st.pvalues, pair))]
    ELSE [patterns |-> Append(st.patterns, pattern),
          pvalues |-> Append(st.pvalues, pair)]

\* the candidate loop of findSignificantPatterns; st = [patterns, pvalues]
RECURSIVE SignificanceLoop(_, _, _, _, _, _, _)
SignificanceLoop(st, cands, i, pvalueCache, descents, eta, alpha) ==
    IF i >= Len(cands) THEN st
    ELSE Force(<<FindBestLeftDescentColumn(pvalueCache, descents, At(cands, i), eta),
                 FindBestRightDescentColumn(pvalueCache, descents, At(cands, i), eta)>>,
               LAMBDA tempPvalues :
         Force(IF \/ QLess(QOne, tempPvalues[1])
                  \/ QLess(QOne, tempPvalues[2])
                  \/ ~IsPatternSignificant(tempPvalues, alpha)
               THEN st
               ELSE PushSignificant(st, At(cands, i), tempPvalues),
               LAMBDA st1 :
               SignificanceLoop(st1, cands, i + 1, pvalueCache, descents, eta, alpha)))

\* RDSGraph::findSignificantPatterns: the patterns and their p-values (the
\* function returns true iff patterns is not empty)
FindSignificantPatterns(sizes, flows, descents, eta, alpha) ==
    Force(PvalueCache(sizes, flows, descents, eta), LAMBDA pvalueCache :
    Force(CandidatePatterns(descents, eta), LAMBDA cands :
          SignificanceLoop([patterns |-> <<>>, pvalues |-> <<>>], cands, 0,
                           pvalueCache, descents, eta, alpha)))

\* matrices and significant patterns of one search path on graph G
SearchPatterns(G, search_path, eta, alpha) ==
    Force(ComputeConnectionMatrix(G, search_path), LAMBDA connections :
    Force(ConnectionSizes(connections), LAMBDA sizes :
    Force(ComputeFlows(G, sizes), LAMBDA flows :
    Force(ComputeDescents(flows), LAMBDA descents :
    Force(FindSignificantPatterns(sizes, flows, descents, eta, alpha), LAMBDA found :
          [connections |-> connections, patterns |-> found.patterns,
           pvalues |-> found.pvalues])))))

(***************************************************************************)
(* Rewiring operator                                                       *)
(***************************************************************************)
\* RDSGraph::rewire(connections, unsigned int ec)
RECURSIVE OverwriteWithEC(_, _, _)
OverwriteWithEC(ps, connections, ec) ==
    IF connections = <<>> THEN ps
    ELSE Force([ps EXCEPT ![connections[1][1] + 1][connections[1][2] + 1] = ec],
               LAMBDA ps1 : OverwriteWithEC(ps1, Tail(connections), ec))

RewireIndex(G, connections, ec) ==
    UpdateAllConnections([G EXCEPT !.paths = OverwriteWithEC(G.paths, connections, ec)])

\* RDSGraph::rewire(connections, const EquivalenceClass&)
RewireEC(G, connections, ec) ==
    Force(PushNode(G, ec, "EC"), LAMBDA g1 :
          RewireIndex(g1, connections, Len(g1.nodes) - 1))

\* one pass of the insertion loop that groups the connections by path and
\* orders each group by offset; the position where con is inserted
RECURSIVE InsertPosition(_, _, _, _)
InsertPosition(sorted, con, j, found_group) ==
    IF j >= Len(sorted) THEN Len(sorted)
    ELSE IF con[1] = At(sorted, j)[1]
    THEN (IF con[2] < At(sorted, j)[2] THEN j
          ELSE InsertPosition(sorted, con, j + 1, TRUE))
    ELSE IF found_group THEN j
    ELSE InsertPosition(sorted, con, j + 1, FALSE)

InsertAt(s, pos, v) == SubSeq(s, 1, pos) \o <<v>> \o SubSeq(s, pos + 1, Len(s))

RECURSIVE SortConnections(_, _)
SortConnections(connections, sorted) ==
    IF connections = <<>> THEN sorted
    ELSE Force(InsertAt(sorted, InsertPosition(sorted, connections[1], 0, FALSE),
                        connections[1]),
               LAMBDA sorted1 : SortConnections(Tail(connections), sorted1))

\* the overlap test with < in place of <=
RECURSIVE DropOverlapsStrict(_, _, _)
DropOverlapsStrict(sorted, valid, pattern_size) ==
    IF sorted = <<>> THEN valid
    ELSE LET cur == sorted[1]
             last == Last(valid)
         IN Force(IF cur[1] = last[1] /\ cur[2] < last[2] + pattern_size - 1
                  THEN valid ELSE Append(valid, cur),
                  LAMBDA valid1 : DropOverlapsStrict(Tail(sorted), valid1, pattern_size))

\* keep the connections that do not overlap the last accepted one
RECURSIVE DropOverlaps(_, _, _)
DropOverlaps(sorted, valid, pattern_size) ==
    IF sorted = <<>> THEN valid
    ELSE LET cur == sorted[1]
             last == Last(valid)
         IN Force(IF cur[1] = last[1] /\ cur[2] <= last[2] + pattern_size - 1
                  THEN valid ELSE Append(valid, cur),
                  LAMBDA valid1 : DropOverlaps(Tail(sorted), valid1, pattern_size))

ValidConnections(connections, pattern_size) ==
    Force(SortConnections(connections, <<>>), LAMBDA sorted :
          DropOverlaps(Tail(sorted), <<sorted[1]>>, pattern_size))

\* the tree left without the nodes for the classes of the pattern
WrapSegmentSkipped(tree, segment, pattern, path_pos, j) == tree

\* wrap the children that the pattern covers through another node (an EC)
RECURSIVE WrapSegment(_, _, _, _, _)
WrapSegment(tree, segment, pattern, path_pos, j) ==
    IF j >= Len(segment) THEN tree
    ELSE Force(IF At(segment, j) # At(pattern, j)
               THEN ParseTreeRewire(tree, path_pos + j, path_pos + j, At(pattern, j))
               ELSE tree,
               LAMBDA tree1 : WrapSegment(tree1, segment, pattern, path_pos, j + 1))

\* the valid connections rewired from the first to the last
RECURSIVE ApplyConnectionsAscending(_, _, _, _)
ApplyConnectionsAscending(G, valid, i, pattern) ==
    IF i < 0 THEN G
    ELSE LET path_index == At(valid, Len(valid) - 1 - i)[1]
             path_pos == At(valid, Len(valid) - 1 - i)[2]
             k == Len(pattern)
             new_node == Len(G.nodes) - 1
         IN IF path_index >= Len(G.paths)
               \/ path_pos + k - 1 >= Len(At(G.paths, path_index))
            THEN ApplyConnectionsAscending(G, valid, i - 1, pattern)
            ELSE Force([G EXCEPT
                          !.trees =
                             SetAt(G.trees, path_index,
                                   ParseTreeRewire(
                                      WrapSegment(At(G.trees, path_index),
                                                  Slice(At(G.paths, path_index), path_pos,
                                                        path_pos + k - 1),
                                                  pattern, path_pos, 0),
                                      path_pos, path_pos + k - 1, new_node)),
                          !.paths =
                             SetAt(G.paths, path_index,
                                   SearchPathRewire(At(G.paths, path_index), path_pos,
                                                    path_pos + k - 1, new_node))],
                       LAMBDA g1 : ApplyConnectionsAscending(g1, valid, i - 1, pattern))

\* rewire the valid connections from the last to the first
RECURSIVE ApplyConnections(_, _, _, _)
ApplyConnections(G, valid, i, pattern) ==
    IF i < 0 THEN G
    ELSE LET path_index == At(valid, i)[1]
             path_pos == At(valid, i)[2]
             k == Len(pattern)
             new_node == Len(G.nodes) - 1
         IN IF path_index >= Len(G.paths)
               \/ path_pos + k - 1 >= Len(At(G.paths, path_index))
            THEN ApplyConnections(G, valid, i - 1, pattern)
            ELSE Force([G EXCEPT
                          !.trees =
                             SetAt(G.trees, path_index,
                                   ParseTreeRewire(
                                      WrapSegment(At(G.trees, path_index),
                                                  Slice(At(G.paths, path_index), path_pos,
                                                        path_pos + k - 1),
                                                  pattern, path_pos, 0),
                                      path_pos, path_pos + k - 1, new_node)),
                          !.paths =
                             SetAt(G.paths, path_index,
                                   SearchPathRewire(At(G.paths, path_index), path_pos,
                                                    path_pos + k - 1, new_node))],
                       LAMBDA g1 : ApplyConnections(g1, valid, i - 1, pattern))

\* RDSGraph::rewire(connections, const SignificantPattern&)
RewireSP(G, connections, sp) ==
    Force(PushNode(G, sp, "SP"), LAMBDA g1 :
          IF connections = <<>> THEN g1
          ELSE Force(ValidConnections(connections, Len(sp)), LAMBDA valid :
               Force(ApplyConnections(g1, valid, Len(valid) - 1, sp), LAMBDA g2 :
                     UpdateAllConnections(g2))))

\* RDSGraph::getRewirableConnections
GetRewirableConnections(connections, bestSP) == M(connections, bestSP[2], bestSP[1])

(***************************************************************************)
(* RDSGraph::distill(const SearchPath&, const ADIOSParams&)                *)
(***************************************************************************)
\* distill(search_path, params) returning true also when no pattern is found
DistillPathAlwaysFound(G, search_path, P) ==
    Force(SearchPatterns(G, search_path, P.eta, QOf(P.alpha[1], P.alpha[2])), LAMBDA r :
          IF r.patterns = <<>> THEN [G |-> G, found |-> TRUE]
          ELSE [G |-> RewireSP(G, GetRewirableConnections(r.connections, r.patterns[1]),
                               Slice(search_path, r.patterns[1][1], r.patterns[1][2])),
                found |-> TRUE])

\* the call rewiring the best pattern and yet returning false
DistillPathRewiringUnreported(G, search_path, P) ==
    Force(SearchPatterns(G, search_path, P.eta, QOf(P.alpha[1], P.alpha[2])), LAMBDA r :
          IF r.patterns = <<>> THEN [G |-> G, found |-> FALSE]
          ELSE [G |-> RewireSP(G, GetRewirableConnections(r.connections, r.patterns[1]),
                               Slice(search_path, r.patterns[1][1], r.patterns[1][2])),
                found |-> FALSE])

\* the call adopting a whole sentence as its pattern without asking the
\* significance kernel
DistillPathAdoptingSentence(G, search_path, P) ==
    IF Len(search_path) >= 4
       /\ \A k \in 1..Len(search_path) : NodeType(G, search_path[k]) # "SP"
    THEN Force(ComputeConnectionMatrix(G, search_path), LAMBDA connections :
               [G |-> RewireSP(G, GetRewirableConnections(connections,
                                                         <<1, Len(search_path) - 2>>),
                               Slice(search_path, 1, Len(search_path) - 2)),
                found |-> TRUE])
    ELSE [G |-> G, found |-> FALSE]

\* bool RDSGraph::distill(const SearchPath &search_path, const ADIOSParams &params)
DistillPath(G, search_path, P) ==
    Force(SearchPatterns(G, search_path, P.eta, QOf(P.alpha[1], P.alpha[2])), LAMBDA r :
          IF r.patterns = <<>> THEN [G |-> G, found |-> FALSE]
          ELSE [G |-> RewireSP(G, GetRewirableConnections(r.connections, r.patterns[1]),
                               Slice(search_path, r.patterns[1][1], r.patterns[1][2])),
                found |-> TRUE])

(***************************************************************************)
(* RDSGraph::clone and the destruction of a graph                          *)
(***************************************************************************)
\* a copy that shares the unit instead of duplicating it
MakeCopyShallow(h, address) == [heap |-> h, address |-> address]

\* LexiconUnit::makeCopy: a new unit with the same payload; [heap, address]
MakeCopy(h, address) ==
    LET a == NewAddress(h)
    IN [heap |-> HeapPut(h, a, IF address \in DOMAIN h THEN h[address] ELSE <<>>),
        address |-> a]

\* RDSNode::RDSNode(const RDSNode&), node after node; st = [heap, nodes]
RECURSIVE CopyNodes(_, _, _)
CopyNodes(st, source, i) ==
    IF i >= Len(source) THEN st
    ELSE Force(MakeCopy(st.heap, At(source, i).lexicon), LAMBDA c :
         Force([heap |-> c.heap,
                nodes |-> Append(st.nodes,
                                 [type |-> At(source, i).type,
                                  lexicon |-> c.address,
                                  connections |-> At(source, i).connections,
                                  parents |-> At(source, i).parents])],
               LAMBDA st1 : CopyNodes(st1, source, i + 1)))

\* RDSGraph::clone
Clone(G) ==
    Force(CopyNodes([heap |-> G.heap, nodes |-> <<>>], G.nodes, 0), LAMBDA copied :
          [heap |-> copied.heap, nodes |-> copied.nodes, paths |-> G.paths,
           trees |-> G.trees, corpusSize |-> G.corpusSize, counts |-> G.counts,
           significant_patterns |-> G.significant_patterns,
           rewiring_ops |-> G.rewiring_ops])

\* ~RDSGraph: every node deletes the unit it owns; the heap afterwards
DestroyGraph(G) == HeapFree(G.heap, {G.nodes[k].lexicon : k \in 1..Len(G.nodes)})

(***************************************************************************)
(* Bootstrap and generalisation                                            *)
(***************************************************************************)
\* the units found at offset slot of the given connections, in order
RECURSIVE UnitsAtSlot(_, _, _, _)
UnitsAtSlot(G, connections, slot, ec) ==
    IF connections = <<>> THEN ec
    ELSE Force(EquivalenceClassAdd(ec, At(At(G.paths, connections[1][1]),
                                          connections[1][2] + slot)),
               LAMBDA ec1 : UnitsAtSlot(G, Tail(connections), slot, ec1))

\* RDSGraph::computeEquivalenceClass
ComputeEquivalenceClass(G, search_path, slotIndex) ==
    Force(GetAllNodeConnections(G, At(search_path, 0)), LAMBDA c0 :
    Force(FilterConnections(G, c0, 0, Slice(search_path, 0, slotIndex - 1)), LAMBDA c1 :
    Force(FilterConnections(G, c1, slotIndex + 1,
                            Slice(search_path, slotIndex + 1, Len(search_path) - 1)),
          LAMBDA c2 : UnitsAtSlot(G, c2, slotIndex, <<>>))))

\* |A intersect B| / |B| as a double
OverlapRatio(encountered, ec) == DOf(Len(ComputeOverlapEC(encountered, ec)), Len(ec))

\* the node loop of bootstrap for one slot; st = [ec, ratio]
RECURSIVE BestOverlap(_, _, _, _, _)
BestOverlap(G, st, encountered, j, overlapThreshold) ==
    IF j >= Len(G.nodes) THEN st
    ELSE Force(IF NodeType(G, j) = "EC"
               THEN Force(OverlapRatio(encountered, Lexicon(G, j)), LAMBDA overlap :
                          IF DLess(st.ratio, overlap) /\ DLess(overlapThreshold, overlap)
                          THEN [ec |-> j, ratio |-> overlap]
                          ELSE st)
               ELSE st,
               LAMBDA st1 : BestOverlap(G, st1, encountered, j + 1, overlapThreshold))

\* RDSGraph::bootstrap: [path, encountered_ecs]
Bootstrap(G, search_path, overlapThreshold) ==
    Force(FilterConnections(G, GetAllNodeConnections(G, At(search_path, 0)),
                            Len(search_path) - 1, <<Last(search_path)>>),
          LAMBDA equivalenceConnections :
    Force(Tabulate(LAMBDA i : UnitsAtSlot(G, equivalenceConnections, i, <<>>),
                   1, Len(search_path) - 1),
          LAMBDA encountered_ecs :
          [path |-> <<At(search_path, 0)>>
                    \o Tabulate(LAMBDA i :
                                  BestOverlap(G, [ec |-> At(search_path, i + 1),
                                                  ratio |-> DOf(0, 1)],
                                              At(encountered_ecs, i), 0,
                                              overlapThreshold).ec,
                                0, Len(encountered_ecs))
                    \o <<Last(search_path)>>,
           encountered_ecs |-> encountered_ecs]))

\* RDSGraph::findExistingEquivalenceClass
RECURSIVE FindExistingFrom(_, _, _)
FindExistingFrom(G, ec, i) ==
    IF i >= Len(G.nodes) THEN Len(G.nodes)
    ELSE IF NodeType(G, i) = "EC"
            /\ Len(ComputeOverlapEC(ec, Lexicon(G, i))) = Len(Lexicon(G, i))
    THEN i
    ELSE FindExistingFrom(G, ec, i + 1)

FindExistingEquivalenceClass(G, ec) == FindExistingFrom(G, ec, 0)

\* generalise, bootstrapping stage: the boosted paths, their contexts and
\* the classes encountered, entry 0 being the search path itself
BoostedStage(G, search_path, P) ==
    LET n == IF Len(search_path) >= P.contextSize
             THEN Len(search_path) - P.contextSize + 1 ELSE 0
    IN Force(Tabulate(LAMBDA i :
                        Bootstrap(G, Slice(search_path, i, i + P.contextSize - 1),
                                  P.overlapThreshold),
                      0, n),
             LAMBDA boots :
       [contexts |-> <<<<0, 0>>>> \o Tabulate(LAMBDA i : <<i, i + P.contextSize - 1>>, 0, n),
        paths |-> <<search_path>>
                  \o Tabulate(LAMBDA i :
                                SearchPathSubstitute(search_path, i, i + P.contextSize - 1,
                                                     At(boots, i).path),
                              0, n),
        encountered_ecs |->
            <<Tabulate(LAMBDA k : <<>>, 0, Max(0, P.contextSize - 2))>>
            \o Tabulate(LAMBDA i : At(boots, i).encountered_ecs, 0, n)])

\* generalise, generalisation stage: the slot loop of one boosted path;
\* st = [general2boost, slots, paths, ecs]
RECURSIVE SlotLoop(_, _, _, _, _, _, _, _)
SlotLoop(G, st, search_path, boosted, i, j, start_index, P) ==
    IF j >= P.contextSize - 1 THEN st
    ELSE LET context_start == At(boosted.contexts, i)[1]
             context_finish == At(boosted.contexts, i)[2]
         IN Force(ComputeEquivalenceClass(G, Slice(At(boosted.paths, i), context_start,
                                                   context_finish), j),
                  LAMBDA ec :
            Force(IF Len(ec) > 1
                  THEN SetAt(At(boosted.paths, i), context_start + j,
                             FindExistingEquivalenceClass(G, ec))
                  ELSE At(boosted.paths, i),
                  LAMBDA general_path :
            Force(IF \/ general_path = search_path
                     \/ \E k \in start_index..(Len(st.paths) - 1) :
                           general_path = At(st.paths, k)
                  THEN st
                  ELSE [general2boost |-> Append(st.general2boost, i),
                        slots |-> Append(st.slots, context_start + j),
                        paths |-> Append(st.paths, general_path),
                        ecs |-> Append(st.ecs, ec)],
                  LAMBDA st1 :
                  SlotLoop(G, st1, search_path, boosted, i, j + 1, start_index, P))))

RECURSIVE GeneralStage(_, _, _, _, _, _)
GeneralStage(G, st, search_path, boosted, i, P) ==
    IF i >= Len(boosted.paths) THEN st
    ELSE Force(SlotLoop(G, st, search_path, boosted, i, 1, Len(st.paths), P),
               LAMBDA st1 : GeneralStage(G, st1, search_path, boosted, i + 1, P))

\* only accept the pattern if the completely new class is in the pattern
AcceptPattern(G, general_path, slot, pattern) ==
    ~(/\ At(general_path, slot) >= Len(G.nodes)
      /\ (slot < pattern[1] \/ slot > pattern[2]))

\* the patterns of one general path that are accepted, with their p-values
RECURSIVE AcceptedPatterns(_, _, _, _, _, _)
AcceptedPatterns(G, st, found, i, j, general) ==
    IF j >= Len(found.patterns) THEN st
    ELSE Force(IF AcceptPattern(G, At(general.paths, i), At(general.slots, i),
                                At(found.patterns, j))
               THEN [st EXCEPT !.patterns = Append(@, At(found.patterns, j)),
                               !.pvalues = Append(@, At(found.pvalues, j)),
                               !.pattern2general = Append(@, i)]
               ELSE st,
               LAMBDA st1 : AcceptedPatterns(G, st1, found, i, j + 1, general))

\* generalise, distillation stage: a general path that expects a new class
\* is searched on a temporary clone that holds the class;
\* st = [heap, patterns, pvalues, pattern2general]
RECURSIVE DistillationStage(_, _, _, _, _)
DistillationStage(G, st, general, i, P) ==
    IF i >= Len(general.paths) THEN st
    ELSE LET path == At(general.paths, i)
             simulate == At(path, At(general.slots, i)) >= Len(G.nodes)
             this == [G EXCEPT !.heap = st.heap]
         IN Force(IF simulate THEN RewireEC(Clone(this), <<>>, At(general.ecs, i))
                  ELSE this,
                  LAMBDA temp :
            Force(SearchPatterns(temp, path, P.eta, QOf(P.alpha[1], P.alpha[2])),
                  LAMBDA found :
            Force(AcceptedPatterns(G, [st EXCEPT
                                         !.heap = IF simulate THEN DestroyGraph(temp)
                                                  ELSE st.heap],
                                   found, i, 0, general),
                  LAMBDA st1 : DistillationStage(G, st1, general, i + 1, P))))

\* generalise, the search for the most significant pattern: its index, or
\* the number of patterns when there is none
RECURSIVE BestPatternIndex(_, _, _)
BestPatternIndex(pvalues, i, best) ==
    IF i >= Len(pvalues) THEN best
    ELSE Force(IF best < Len(pvalues)
                  /\ ~SignificancePairLess(At(pvalues, i), At(pvalues, best))
               THEN best ELSE i,
               LAMBDA best1 : BestPatternIndex(pvalues, i + 1, best1))

\* generalise, rewiring stage: the slot loop; st = [G, best_path]
RECURSIVE CommitSlots(_, _, _, _, _, _, _, _)
CommitSlots(st, search_path, i, search_finish, old_num_nodes, best_ec, best_context, best_encountered_ecs) ==
    IF i > search_finish THEN st
    ELSE LET unit == At(st.best_path, i)
             local_slot == i - (best_context[1] + 1)
             existing == Lexicon(st.G, unit)
             overlap_ec == ComputeOverlapEC(At(best_encountered_ecs, local_slot), existing)
             overlap_ratio == Len(overlap_ec) \div Len(existing)
         IN Force(IF unit >= old_num_nodes
                  THEN [G |-> RewireEC(st.G, <<>>, best_ec),
                        best_path |-> SetAt(st.best_path, i, Len(st.G.nodes))]
                  ELSE IF unit # At(search_path, i) /\ overlap_ratio < 1
                  THEN [G |-> RewireEC(st.G, <<>>, overlap_ec),
                        best_path |-> SetAt(st.best_path, i, Len(st.G.nodes))]
                  ELSE st,
                  LAMBDA st1 :
                  CommitSlots(st1, search_path, i + 1, search_finish, old_num_nodes,
                              best_ec, best_context, best_encountered_ecs))

\* RDSGraph::generalise
Generalise(G, search_path, P) ==
    Force(BoostedStage(G, search_path, P), LAMBDA boosted :
    Force(GeneralStage(G, [general2boost |-> <<0>>, slots |-> <<0>>,
                           paths |-> <<search_path>>, ecs |-> <<<<>>>>],
                       search_path, boosted, 1, P),
          LAMBDA general :
    Force(DistillationStage(G, [heap |-> G.heap, patterns |-> <<>>, pvalues |-> <<>>,
                                pattern2general |-> <<>>],
                            general, 0, P),
          LAMBDA all :
    Force(BestPatternIndex(all.pvalues, 0, Len(all.pvalues)), LAMBDA best_pattern_index :
          IF best_pattern_index >= Len(all.patterns)
          THEN [G |-> [G EXCEPT !.heap = all.heap], found |-> FALSE]
          ELSE LET best_pattern == At(all.patterns, best_pattern_index)
                   best_general_index == At(all.pattern2general, best_pattern_index)
                   best_boosted_index == At(general.general2boost, best_general_index)
                   best_context == At(boosted.contexts, best_boosted_index)
               IN Force(CommitSlots([G |-> [G EXCEPT !.heap = all.heap],
                                     best_path |-> At(general.paths, best_general_index)],
                                    search_path,
                                    Max(best_pattern[1], best_context[1]),
                                    Min(best_pattern[2], best_context[2]),
                                    Len(G.nodes),
                                    At(general.ecs, best_general_index),
                                    best_context,
                                    At(boosted.encountered_ecs, best_boosted_index)),
                        LAMBDA committed :
                  Force(ComputeConnectionMatrix(committed.G, committed.best_path),
                        LAMBDA best_connections :
                        [G |-> RewireSP(committed.G,
                                        GetRewirableConnections(best_connections,
                                                                best_pattern),
                                        Slice(committed.best_path, best_pattern[1],
                                              best_pattern[2])),
                         found |-> TRUE]))))))

(***************************************************************************)
(* RDSGraph::estimateProbabilities                                         *)
(***************************************************************************)
\* how often tree node value node_index adds to counts[node_index][k]
\* at tree position j
CountsAt(G, tree, j, node_index, k) ==
    LET value == At(tree, j).value
    IN IF value # node_index \/ value >= Len(G.nodes) THEN 0
       ELSE IF NodeType(G, value) = "EC"
       THEN (IF At(Lexicon(G, value), k) = At(tree, At(tree, j).children[1]).value
             THEN 1 ELSE 0)
       ELSE (IF k = 0 THEN 1 ELSE 0)

RECURSIVE TreeCount(_, _, _, _, _)
TreeCount(G, tree, j, node_index, k) ==
    IF j >= Len(tree) THEN 0
    ELSE CountsAt(G, tree, j, node_index, k) + TreeCount(G, tree, j + 1, node_index, k)

\* the loop over a tree's nodes begun at the root, whose value is not set
RECURSIVE ForestCountFromRoot(_, _, _, _)
ForestCountFromRoot(G, i, node_index, k) ==
    IF i >= Len(G.trees) THEN 0
    ELSE TreeCount(G, At(G.trees, i), 0, node_index, k)
         + ForestCountFromRoot(G, i + 1, node_index, k)

RECURSIVE ForestCount(_, _, _, _)
ForestCount(G, i, node_index, k) ==
    IF i >= Len(G.trees) THEN 0
    ELSE TreeCount(G, At(G.trees, i), 1, node_index, k) + ForestCount(G, i + 1, node_index, k)

\* the counts added to those of the call before instead of being cleared
EstimateProbabilitiesAdding(G) ==
    [G EXCEPT !.counts =
       Tabulate(LAMBDA i :
                  Tabulate(LAMBDA k :
                             ForestCount(G, 0, i, k)
                             + (IF i < Len(G.counts) THEN At(At(G.counts, i), k) ELSE 0),
                           0, IF NodeType(G, i) = "EC" THEN Len(Lexicon(G, i)) ELSE 1),
                0, Len(G.nodes))]

EstimateProbabilities(G) ==
    [G EXCEPT !.counts =
       Tabulate(LAMBDA i :
                  Tabulate(LAMBDA k : ForestCount(G, 0, i, k), 0,
                           IF NodeType(G, i) = "EC" THEN Len(Lexicon(G, i)) ELSE 1),
                0, Len(G.nodes))]

(***************************************************************************)
(* RDSGraph::convert2PCFG: the rules written, E and P rules in node order  *)
(* as [lhs, rhs, prob], the S rules as the map from right-hand side to     *)
(* probability.  A symbol is written by its node id.                       *)
(***************************************************************************)
\* a + b on non-negative doubles
DAdd(a, b) ==
    IF DIsNaN(a) \/ DIsNaN(b) THEN <<0, 0>>
    ELSE IF a[2] = 0 \/ b[2] = 0 THEN <<1, 0>>
    ELSE DNorm(a[1] * b[2] + b[1] * a[2], a[2] * b[2])

\* the divisor of a rule's count: 1.0 in place of a total of 0.0
RuleTotal(total) == IF total = 0 THEN 1 ELSE total

ECRules(G, i) ==
    LET row == At(G.counts, i)
        ec == Lexicon(G, i)
        total == RuleTotal(SumSeq(Tabulate(LAMBDA j : At(row, j), 0, Len(ec))))
    IN Tabulate(LAMBDA j : [lhs |-> <<"E", i>>, rhs |-> <<At(ec, j)>>,
                            prob |-> DDiv(DOf(At(row, j), 1), DOf(total, 1))],
                0, Len(ec))

SPRules(G, i) ==
    LET count == At(At(G.counts, i), 0)
    IN <<[lhs |-> <<"P", i>>, rhs |-> Lexicon(G, i),
          prob |-> DDiv(DOf(count, 1), DOf(RuleTotal(count), 1))]>>

\* the right-hand side of the S rule of a path: the path without Start and End
SRuleRhs(path) == Slice(path, 1, Len(path) - 2)

\* s_rule_counts
SRuleCounts(G) ==
    [rhs \in {SRuleRhs(G.paths[i]) : i \in 1..Len(G.paths)} |->
       Cardinality({i \in 1..Len(G.paths) : SRuleRhs(G.paths[i]) = rhs})]

Convert2PCFG(G) ==
    LET s_rule_counts == SRuleCounts(G)
        total_s_rule_count == Len(G.paths)
    IN [rules |-> Concat(Tabulate(LAMBDA i :
                                    IF NodeType(G, i) = "EC" THEN ECRules(G, i)
                                    ELSE IF NodeType(G, i) = "SP" THEN SPRules(G, i)
                                    ELSE <<>>,
                                  0, Len(G.nodes))),
        s_rules |-> [rhs \in DOMAIN s_rule_counts |->
                       IF total_s_rule_count > 0
                       THEN DDiv(DOf(s_rule_counts[rhs], 1), DOf(total_s_rule_count, 1))
                       ELSE DOf(1, 1)]]

(***************************************************************************)
(* The inputs: corpora over the tokens 1..NumTokens and parameter sets.    *)
(* buildInitialGraph numbers the terminals by first occurrence, so only    *)
(* corpora whose tokens first occur in the order 1, 2, ... are drawn; any  *)
(* other corpus builds the same graph up to the token strings.             *)
(***************************************************************************)
Sentences == UNION {[1..n -> 1..NumTokens] : n \in 1..MaxSentenceLen}

RECURSIVE FirstOccurrencesInOrder(_, _)
FirstOccurrencesInOrder(tokens, seen) ==
    IF tokens = <<>> THEN TRUE
    ELSE /\ tokens[1] <= seen + 1
         /\ FirstOccurrencesInOrder(Tail(tokens), Max(seen, tokens[1]))

\* the corpus  a / a b a b / b a / a a b b / a a a : with context size 4
\* generalise ends on it by installing a Pattern none of whose occurrences
\* is left to rewire
UnrewirableCorpus ==
    <<<<1>>, <<1, 2, 1, 2>>, <<2, 1>>, <<1, 1, 2, 2>>, <<1, 1, 1>>>>

\* the corpus of the one sentence  a b c  of pairwise distinct tokens
DistinctCorpus == <<<<1, 2, 3>>>>

\* the corpus of three times the sentence  a b c
RepeatedCorpus == <<<<1, 2, 3>>, <<1, 2, 3>>, <<1, 2, 3>>>>

Corpora ==
    {c \in UNION {[1..k -> Sentences] : k \in 1..MaxSentences} :
        FirstOccurrencesInOrder(Concat(c), 0)}
    \cup {UnrewirableCorpus, DistinctCorpus, RepeatedCorpus}

\* ADIOSParams(eta, alpha, contextSize, overlapThreshold)
ADIOSParams(eta, alpha, contextSize, overlapThreshold) ==
    [eta |-> eta, alpha |-> alpha, contextSize |-> contextSize,
     overlapThreshold |-> overlapThreshold]

ParamSets ==
    {ADIOSParams(<<9, 10>>, <<1, 100>>, 2, <<1, 2>>),
     ADIOSParams(<<9, 10>>, <<1, 2>>, 2, <<1, 2>>),
     ADIOSParams(<<9, 10>>, <<1, 2>>, 3, <<1, 2>>),
     ADIOSParams(<<9, 10>>, <<1, 1>>, 3, <<0, 1>>),
     ADIOSParams(<<9, 10>>, <<1, 1>>, 4, <<0, 1>>),
     ADIOSParams(<<9, 10>>, <<1, 2>>, 3, <<3, 2>>)}

\* the assertions of the ADIOSParams constructor: eta and alpha in [0, 1]
ParamsAsserted(P) ==
    /\ ~DLess(P.eta, <<0, 1>>) /\ ~DLess(<<1, 1>>, P.eta)
    /\ ~DLess(P.alpha, <<0, 1>>) /\ ~DLess(<<1, 1>>, P.alpha)

(***************************************************************************)
(* State                                                                   *)
(***************************************************************************)
\* the RDSGraph object under distillation, with the heap it lives in
ThisGraph ==
    [heap |-> heap, nodes |-> nodes, paths |-> paths, trees |-> trees,
     corpusSize |-> corpusSize, counts |-> counts,
     significant_patterns |-> significant_patterns, rewiring_ops |-> rewiring_ops]

\* the graph fields after an operation that yields graph G
GraphBecomes(G) ==
    /\ heap' = G.heap
    /\ nodes' = G.nodes
    /\ paths' = G.paths
    /\ trees' = G.trees
    /\ corpusSize' = G.corpusSize
    /\ counts' = G.counts
    /\ significant_patterns' = G.significant_patterns
    /\ rewiring_ops' = G.rewiring_ops

graphVars == <<heap, nodes, paths, trees, corpusSize, counts,
               significant_patterns, rewiring_ops>>

\* RDSGraph::RDSGraph(sequences): the state after construction
Init ==
    /\ sequences \in Corpora
    /\ params \in ParamSets
    /\ \E root \in RootValues : \E G \in {BuildInitialGraph(sequences, root)} :
          /\ heap = G.heap
          /\ nodes = G.nodes
          /\ paths = G.paths
          /\ trees = G.trees
          /\ corpusSize = G.corpusSize
          /\ counts = G.counts
          /\ significant_patterns = G.significant_patterns
          /\ rewiring_ops = G.rewiring_ops
    /\ pc = "idle"
    /\ pathIndex = 0
    /\ foundPattern = FALSE
    /\ calls = 0
    /\ temp_graph = NullGraph

(***************************************************************************)
(* RDSGraph::distill(const ADIOSParams&): the driver                       *)
(***************************************************************************)
\* one pass of the for loop over the paths, from path i on
RECURSIVE DistillPass(_, _, _, _)
DistillPass(G, i, found, P) ==
    IF i >= Len(G.paths) THEN [G |-> G, found |-> found]
    ELSE Force(IF P.contextSize < 3 \/ Len(At(G.paths, i)) < P.contextSize
               THEN DistillPath(G, At(G.paths, i), P)
               ELSE Generalise(G, At(G.paths, i), P),
               LAMBDA r : DistillPass(r.G, i + 1, r.found \/ found, P))

\* the while(true) loop: passes until one finds no pattern, then the estimate
RECURSIVE DistillLoop(_, _)
DistillLoop(G, P) ==
    Force(DistillPass(G, 0, FALSE, P),
          LAMBDA r : IF r.found THEN DistillLoop(r.G, P)
                     ELSE EstimateProbabilities(r.G))

\* the whole call, from entry to return
Distill(G, P) == DistillLoop(G, P)

\* n calls in a row on the graph built from seqs
RECURSIVE DistillTimes(_, _, _)
DistillTimes(G, P, n) ==
    IF n = 0 THEN G ELSE DistillTimes(Distill(G, P), P, n - 1)

\* ADIOSParams(...) is constructed, its assertions pass, and the call enters
\* the outer loop
EnterDistill ==
    /\ pc = "idle"
    /\ temp_graph = NullGraph
    /\ calls < MaxDistillCalls
    /\ ParamsAsserted(params)
    /\ pc' = "distill"
    /\ pathIndex' = 0
    /\ foundPattern' = FALSE
    /\ calls' = calls + 1
    /\ UNCHANGED <<graphVars, sequences, params, temp_graph>>

UsesPlainDistill(path) ==
    params.contextSize < 3 \/ Len(path) < params.contextSize

\* the loop body for a path searched without generalisation
DistillSearchPath ==
    /\ pc = "distill"
    /\ pathIndex < Len(paths)
    /\ UsesPlainDistill(At(paths, pathIndex))
    /\ \E r \in {DistillPath(ThisGraph, At(paths, pathIndex), params)} :
          /\ GraphBecomes(r.G)
          /\ foundPattern' = (r.found \/ foundPattern)
    /\ pathIndex' = pathIndex + 1
    /\ UNCHANGED <<sequences, params, pc, calls, temp_graph>>

\* the loop body for a path searched with generalisation
GeneraliseSearchPath ==
    /\ pc = "distill"
    /\ pathIndex < Len(paths)
    /\ ~UsesPlainDistill(At(paths, pathIndex))
    /\ \E r \in {Generalise(ThisGraph, At(paths, pathIndex), params)} :
          /\ GraphBecomes(r.G)
          /\ foundPattern' = (r.found \/ foundPattern)
    /\ pathIndex' = pathIndex + 1
    /\ UNCHANGED <<sequences, params, pc, calls, temp_graph>>

\* a pass that found a pattern is followed by another pass
NextIteration ==
    /\ pc = "distill"
    /\ pathIndex = Len(paths)
    /\ foundPattern
    /\ pathIndex' = 0
    /\ foundPattern' = FALSE
    /\ UNCHANGED <<graphVars, sequences, params, pc, calls, temp_graph>>

\* a pass that found nothing ends the loop; the call estimates the
\* probabilities and returns
FinishDistill ==
    /\ pc = "distill"
    /\ pathIndex = Len(paths)
    /\ ~foundPattern
    /\ GraphBecomes(EstimateProbabilities(ThisGraph))
    /\ pc' = "idle"
    /\ UNCHANGED <<sequences, params, pathIndex, foundPattern, calls, temp_graph>>

Next ==
    \/ EnterDistill
    \/ DistillSearchPath
    \/ GeneraliseSearchPath
    \/ NextIteration
    \/ FinishDistill

Spec == Init /\ [][Next]_vars

\* the states in which Next can take a step: a call can be entered, or a call
\* is in its loop (a path is left to search, or the pass is over and it is
\* followed by another pass or by the return)
NextEnabled ==
    \/ pc = "idle" /\ temp_graph = NullGraph /\ calls < MaxDistillCalls
         /\ ParamsAsserted(params)
    \/ pc = "distill" /\ pathIndex <= Len(paths)

\* one thread runs the call and nothing interrupts it: a step that can be
\* taken is taken.  This is WF_vars(Next) with ENABLED <<Next>>_vars written
\* out as NextEnabled
FairSpec == Spec /\ ([]<>~NextEnabled \/ []<><<Next>>_vars)

(***************************************************************************)
(* A clone beside the graph: temp_graph = this->clone(), rewired as the    *)
(* generalisation simulation rewires it, and destroyed at the end of its   *)
(* scope.  temp_graph holds the clone's fields; its units share the heap.  *)
(***************************************************************************)
Fields(G) ==
    [nodes |-> G.nodes, paths |-> G.paths, trees |-> G.trees,
     corpusSize |-> G.corpusSize, counts |-> G.counts,
     significant_patterns |-> G.significant_patterns,
     rewiring_ops |-> G.rewiring_ops]

TempGraph ==
    [heap |-> heap, nodes |-> temp_graph.nodes, paths |-> temp_graph.paths,
     trees |-> temp_graph.trees, corpusSize |-> temp_graph.corpusSize,
     counts |-> temp_graph.counts,
     significant_patterns |-> temp_graph.significant_patterns,
     rewiring_ops |-> temp_graph.rewiring_ops]

TempGraphBecomes(G) ==
    /\ heap' = G.heap
    /\ temp_graph' = Fields(G)
    /\ UNCHANGED <<nodes, paths, trees, corpusSize, counts, significant_patterns,
                   rewiring_ops, sequences, params, pc, pathIndex, foundPattern, calls>>

\* auto temp_graph = this->clone()
CloneGraph ==
    /\ pc = "idle"
    /\ temp_graph = NullGraph
    /\ TempGraphBecomes(Clone(ThisGraph))

\* the classes installed on the clone: of the first terminal, of the first two
CloneClasses == {ec \in {<<2>>, <<2, 3>>} : \A k \in 1..Len(ec) : ec[k] < Len(nodes)}

\* temp_graph->rewire(vector<Connection>(), EquivalenceClass(ec))
RewireCloneEC ==
    /\ temp_graph # NullGraph
    /\ Len(temp_graph.nodes) < Len(nodes) + MaxCloneRewires
    /\ \E ec \in CloneClasses : TempGraphBecomes(RewireEC(TempGraph, <<>>, ec))

\* temp_graph->distill(path, params) with a pattern found: a Pattern is
\* installed on the clone
RewireClonePattern ==
    /\ temp_graph # NullGraph
    /\ Len(temp_graph.nodes) < Len(nodes) + MaxCloneRewires
    /\ \E i \in 0..(Len(temp_graph.paths) - 1) :
         \E r \in {DistillPath(TempGraph, At(temp_graph.paths, i), params)} :
            r.found /\ TempGraphBecomes(r.G)

\* the clone goes out of scope
DropClone ==
    /\ temp_graph # NullGraph
    /\ heap' = DestroyGraph(TempGraph)
    /\ temp_graph' = NullGraph
    /\ UNCHANGED <<nodes, paths, trees, corpusSize, counts, significant_patterns,
                   rewiring_ops, sequences, params, pc, pathIndex, foundPattern, calls>>

NextClone ==
    \/ Next
    \/ CloneGraph
    \/ RewireCloneEC
    \/ RewireClonePattern
    \/ DropClone

SpecClone == Init /\ [][NextClone]_vars


(***************************************************************************)
(* Properties                                                              *)
(***************************************************************************)
NodeIds == 0..(Len(nodes) - 1)

PathIds == 0..(Len(paths) - 1)

PatternIds == {n \in NodeIds : NodeType(ThisGraph, n) = "SP"}

\* the sum of the lengths of the sequences in ss
TotalLen(ss) == SumSeq(Tabulate(LAMBDA i : Len(At(ss, i)), 0, Len(ss)))

\* the values of the leaves below position k of a parse tree, left to right
RECURSIVE LeavesBelow(_, _)
LeavesBelow(tree, k) ==
    IF At(tree, k).children = <<>> THEN <<At(tree, k).value>>
    ELSE Concat(Tabulate(LAMBDA c : LeavesBelow(tree, At(At(tree, k).children, c)),
                         0, Len(At(tree, k).children)))

Leaves(tree) == LeavesBelow(tree, 0)

\* C1 (I1): in every state - after construction and after every step of a
\* distill call, each of which ends with its rewiring complete - every entry
\* (p, j) of every node n's connections is a position of a path, and
\* paths[p][j] = n.
C1_ConnectionsPointBack ==
    \A n \in NodeIds :
       \A k \in 1..Len(At(nodes, n).connections) :
          LET p == At(nodes, n).connections[k][1]
              j == At(nodes, n).connections[k][2]
          IN p < Len(paths) /\ j < Len(At(paths, p)) /\ At(At(paths, p), j) = n

\* a distill call has returned and left a Pattern node that paths hold
C1_PatternRewired ==
    /\ pc = "idle"
    /\ calls > 0
    /\ \E n \in PatternIds : At(nodes, n).connections # <<>>

\* C2 (I3): after construction and after every distill call, for every
\* Pattern node n and every position i of its payload, (n, i) is among the
\* parents of the child at position i.
C2_PatternChildrenKnowParent ==
    pc = "idle" =>
       \A n \in PatternIds :
          \A i \in 0..(Len(Lexicon(ThisGraph, n)) - 1) :
             Contains(At(nodes, At(Lexicon(ThisGraph, n), i)).parents, <<n, i>>)

\* C3: in every state every path starts with node 0 (Start), ends with
\* node 1 (End) and holds neither at an interior position, and no Pattern or
\* EquivalenceClass payload holds Start or End.
C3_StartAndEndStayAtTheEnds ==
    /\ \A p \in PathIds :
          /\ Len(At(paths, p)) >= 2
          /\ At(At(paths, p), 0) = 0
          /\ Last(At(paths, p)) = 1
          /\ \A j \in 1..(Len(At(paths, p)) - 2) : At(At(paths, p), j) \notin {0, 1}
    /\ \A n \in NodeIds :
          NodeType(ThisGraph, n) \in {"SP", "EC"} =>
             ~Contains(Lexicon(ThisGraph, n), 0) /\ ~Contains(Lexicon(ThisGraph, n), 1)

\* a Pattern was rewired into the position next to Start of one path and
\* into the position next to End of one path
C3_PatternNextToStartAndEnd ==
    /\ \E p \in PathIds : At(At(paths, p), 1) \in PatternIds
    /\ \E p \in PathIds : At(At(paths, p), Len(At(paths, p)) - 2) \in PatternIds

C5_LeavesArePath ==
    pc = "idle" => \A p \in PathIds : Leaves(At(trees, p)) = At(paths, p)

\* C5 (I4) as the code keeps it: in every state the leaves of the parse tree
\* of path p, left to right, are the path as it was built (Start, the
\* sentence's terminals, End); there are at least |paths[p]| of them, and they
\* equal paths[p] exactly when paths[p] holds no Pattern or EquivalenceClass.
C5_LeavesAreBuiltPath ==
    \A p \in PathIds :
       /\ Leaves(At(trees, p)) = At(BuildInitialGraph(sequences, 0 - 1).paths, p)
       /\ Len(Leaves(At(trees, p))) >= Len(At(paths, p))
       /\ (Leaves(At(trees, p)) = At(paths, p))
             <=> (\A j \in 0..(Len(At(paths, p)) - 1) :
                     NodeType(ThisGraph, At(At(paths, p), j)) \notin {"SP", "EC"})

\* a distill call has returned with a tree that has more leaves than its
\* path has elements
C5_MoreLeavesThanPath ==
    /\ pc = "idle"
    /\ calls > 0
    /\ \E p \in PathIds : Len(Leaves(At(trees, p))) > Len(At(paths, p))

\* the sum of the probabilities of the rules from offset i on whose left-hand
\* side is lhs
RECURSIVE ProbabilitySum(_, _, _)
ProbabilitySum(rules, lhs, i) ==
    IF i >= Len(rules) THEN DOf(0, 1)
    ELSE IF At(rules, i).lhs = lhs
    THEN DAdd(At(rules, i).prob, ProbabilitySum(rules, lhs, i + 1))
    ELSE ProbabilitySum(rules, lhs, i + 1)

\* the sum of the probabilities of the S rules with right-hand sides in rhss
RECURSIVE SProbabilitySum(_, _)
SProbabilitySum(s_rules, rhss) ==
    IF rhss = {} THEN DOf(0, 1)
    ELSE DAdd(s_rules[CHOOSE rhs \in rhss : TRUE],
              SProbabilitySum(s_rules, rhss \ {CHOOSE rhs \in rhss : TRUE}))

\* 1.0 +- 1e-6
IsOne(x) == ~DLess(x, <<999999, 1000000>>) /\ ~DLess(<<1000001, 1000000>>, x)

Normalised(pcfg) ==
    /\ \A k \in 1..Len(pcfg.rules) :
          IsOne(ProbabilitySum(pcfg.rules, pcfg.rules[k].lhs, 0))
    /\ IsOne(SProbabilitySum(pcfg.s_rules, DOMAIN pcfg.s_rules))

\* C6 (L4): after a distill call the probabilities that convert2PCFG writes
\* for the rules of one left-hand side sum to 1, for every left-hand side.
C6_RuleProbabilitiesSumToOne ==
    (pc = "idle" /\ calls > 0) => Normalised(Convert2PCFG(ThisGraph))

\* C7: a distill call that has entered its loop returns.
C7_DistillReturns == (pc = "distill") ~> (pc = "idle")

\* a distill call has returned after a pass that found a pattern and a
\* later pass that found none, with the counts estimated
C7_ReturnedAfterPattern ==
    /\ pc = "idle"
    /\ calls > 0
    /\ PatternIds # {}
    /\ Len(counts) = Len(nodes)

\* the fields of the original graph and the payloads of the units its nodes own
Original ==
    <<nodes, [k \in 1..Len(nodes) |-> Lexicon(ThisGraph, k - 1)], paths, trees, counts,
      corpusSize>>

\* C8 (L2): a step taken while a clone exists - cloning, installing an
\* EquivalenceClass or a Pattern on the clone, destroying the clone - leaves
\* the original's nodes with their payloads, connections and parents, its
\* paths, parse trees, counts and corpusSize as they were.
C8_CloneLeavesOriginal ==
    [][(temp_graph # NullGraph \/ temp_graph' # NullGraph) => Original' = Original]_vars

\* a clone exists that holds a node the original lacks and paths unlike the
\* original's
C8_CloneRewired ==
    /\ temp_graph # NullGraph
    /\ Len(temp_graph.nodes) > Len(nodes)
    /\ temp_graph.paths # paths

\* C9 (L3): whenever a step adds a node to the graph, getRewiringCount() is
\* strictly larger after the step than before.
C9_NewNodeCountsAsRewiring ==
    [][Len(nodes') > Len(nodes) => rewiring_ops' > rewiring_ops]_vars

\* C10: in every state getPatternCount() is the number of Pattern nodes.
C10_PatternCountIsPatternNodes ==
    Len(significant_patterns) = Cardinality(PatternIds)


\* C11: the procedure is deterministic: two runs on the same corpus with the
\* same parameters reach the same nodes, paths, parse trees and counts and
\* print the same grammar, whatever the never-initialised value of the parse
\* trees' roots is in either run
SameTree(t, u) ==
    /\ Len(t) = Len(u)
    /\ \A k \in 1..Len(t) :
          /\ t[k].children = u[k].children
          /\ t[k].parent = u[k].parent
          /\ k > 1 => t[k].value = u[k].value

SameRun(G, H) ==
    /\ G.nodes = H.nodes
    /\ G.heap = H.heap
    /\ G.paths = H.paths
    /\ G.counts = H.counts
    /\ G.corpusSize = H.corpusSize
    /\ Len(G.trees) = Len(H.trees)
    /\ \A k \in 1..Len(G.trees) : SameTree(G.trees[k], H.trees[k])
    /\ Convert2PCFG(G) = Convert2PCFG(H)

SearchFound ==
    IF UsesPlainDistill(At(paths, pathIndex))
    THEN DistillPath(ThisGraph, At(paths, pathIndex), params).found
    ELSE Generalise(ThisGraph, At(paths, pathIndex), params).found

\* C12: a search of a path (plain distill or generalise) that finds no
\* pattern leaves the graph as it was: no node is added and no path, parse
\* tree, connection list, parents list, unit or corpusSize changes
C12_NoPatternNoChange ==
    [][(pc = "distill" /\ pathIndex < Len(paths) /\ ~SearchFound)
          => UNCHANGED graphVars]_vars

C12_PassFoundNothingInRewiredGraph ==
    /\ pc = "distill"
    /\ pathIndex = Len(paths)
    /\ Len(paths) > 1
    /\ ~foundPattern
    /\ PatternIds # {}


\* C13: nodes are never destroyed or edited: across a step every node keeps
\* its id, its kind and its payload; a rewiring only appends nodes
C13_NodesKept ==
    [][/\ Len(nodes') >= Len(nodes)
       /\ \A i \in 1..Len(nodes) :
             /\ nodes'[i].type = nodes[i].type
             /\ nodes'[i].lexicon = nodes[i].lexicon
             /\ nodes[i].lexicon \in DOMAIN heap'
             /\ heap'[nodes[i].lexicon] = heap[nodes[i].lexicon]]_vars

C13_RewiredTwice ==
    \E i, j \in NodeIds :
        /\ i < j
        /\ NodeType(ThisGraph, i) \in {"SP", "EC"}
        /\ NodeType(ThisGraph, j) \in {"SP", "EC"}


\* the corpus is one sentence of pairwise distinct tokens
OneDistinctSentence ==
    /\ Len(sequences) = 1
    /\ \A i, j \in 1..Len(sequences[1]) :
          i # j => sequences[1][i] # sequences[1][j]

\* C14: on a corpus of one sentence of pairwise distinct tokens with a
\* context size below 3 distill finds no pattern: no Pattern or
\* EquivalenceClass node exists, the path is as built, the grammar has no E
\* or P rule and one S rule of probability 1, and the pattern count and the
\* rewiring count are 0
C14_DistinctSentenceYieldsNoPattern ==
    (OneDistinctSentence /\ params.contextSize < 3) =>
        /\ \A i \in NodeIds : NodeType(ThisGraph, i) \notin {"SP", "EC"}
        /\ paths = <<<<0>> \o Tabulate(LAMBDA k : k + 2, 0, Len(sequences[1])) \o <<1>>>>
        /\ ~foundPattern
        /\ Convert2PCFG(ThisGraph).rules = <<>>
        /\ DOMAIN Convert2PCFG(ThisGraph).s_rules
              = {Tabulate(LAMBDA k : k + 2, 0, Len(sequences[1]))}
        /\ \A rhs \in DOMAIN Convert2PCFG(ThisGraph).s_rules :
              Convert2PCFG(ThisGraph).s_rules[rhs] = <<1, 1>>
        /\ Len(significant_patterns) = 0
        /\ rewiring_ops = 0

C14_DistilledThreeDistinctTokens ==
    /\ sequences = DistinctCorpus
    /\ params.contextSize < 3
    /\ pc = "idle"
    /\ calls > 0


\* s is a run of consecutive elements of t
IsSubrange(s, t) ==
    \E a \in 1..Len(t) : \E b \in a..Len(t) : s = SubSeq(t, a, b)

\* C15: on three times the sentence a b c with eta 0.9, alpha 0.01, context
\* size 2 and overlap threshold 0.5 a distill call returns with a single
\* Pattern node whose children are a b c or a subrange of it, every path
\* holds that node, and the grammar has one production per left-hand side
C15_RepetitionYieldsOnePattern ==
    (/\ sequences = RepeatedCorpus
     /\ params = ADIOSParams(<<9, 10>>, <<1, 100>>, 2, <<1, 2>>)
     /\ pc = "idle"
     /\ calls > 0) =>
        /\ Cardinality(PatternIds) = 1
        /\ \A n \in PatternIds :
              /\ IsSubrange(Lexicon(ThisGraph, n), <<2, 3, 4>>)
              /\ \A p \in PathIds : Contains(At(paths, p), n)
        /\ \A i, j \in 1..Len(Convert2PCFG(ThisGraph).rules) :
              i # j => Convert2PCFG(ThisGraph).rules[i].lhs
                          # Convert2PCFG(ThisGraph).rules[j].lhs
        /\ Cardinality(DOMAIN Convert2PCFG(ThisGraph).s_rules) = 1


\* class node j reaches the threshold against the class A encountered at a
\* slot: |A /\ B| / |B| >= overlapThreshold
ReachesThreshold(A, j, overlapThreshold) ==
    /\ NodeType(ThisGraph, j) = "EC"
    /\ Len(Lexicon(ThisGraph, j)) > 0
    /\ ~DLess(OverlapRatio(A, Lexicon(ThisGraph, j)), overlapThreshold)

\* the windows of the path at pathIndex that generalise hands to bootstrap
BootstrapWindows ==
    {Slice(At(paths, pathIndex), i, i + params.contextSize - 1) :
        i \in 0..(Len(At(paths, pathIndex)) - params.contextSize)}

\* C16: bootstrap puts an existing EquivalenceClass node B into an interior
\* slot whenever |A /\ B| / |B| >= overlapThreshold for the class A
\* encountered at the slot, equality included, and leaves the slot as it
\* was only when no existing class reaches the threshold
C16_BootstrapTakesClassAtThreshold ==
    (pc = "distill" /\ pathIndex < Len(paths)
       /\ ~UsesPlainDistill(At(paths, pathIndex))) =>
        \A w \in BootstrapWindows :
          \A b \in {Bootstrap(ThisGraph, w, params.overlapThreshold)} :
            \A s \in 1..(Len(w) - 2) :
               IF \E j \in NodeIds :
                     ReachesThreshold(At(b.encountered_ecs, s - 1), j,
                                      params.overlapThreshold)
               THEN ReachesThreshold(At(b.encountered_ecs, s - 1), At(b.path, s),
                                     params.overlapThreshold)
               ELSE At(b.path, s) = At(w, s)


\* the stages of generalise on the path at pathIndex, up to the distillation
\* stage: [general, all]
GeneraliseStages ==
    Force(BoostedStage(ThisGraph, At(paths, pathIndex), params), LAMBDA boosted :
    Force(GeneralStage(ThisGraph, [general2boost |-> <<0>>, slots |-> <<0>>,
                                   paths |-> <<At(paths, pathIndex)>>, ecs |-> <<<<>>>>],
                       At(paths, pathIndex), boosted, 1, params),
          LAMBDA general :
          [general |-> general,
           all |-> DistillationStage(ThisGraph,
                                     [heap |-> heap, patterns |-> <<>>, pvalues |-> <<>>,
                                      pattern2general |-> <<>>],
                                     general, 0, params)]))

\* C17: generalise accepts a pattern found on a candidate path that brought
\* in a new EquivalenceClass at slot k (placeholder id >= nodes.size()) only
\* if pattern.first < k < pattern.second
C17_NewClassStrictlyInsidePattern ==
    (pc = "distill" /\ pathIndex < Len(paths)
       /\ ~UsesPlainDistill(At(paths, pathIndex))) =>
        \A st \in {GeneraliseStages} :
          \A n \in 1..Len(st.all.patterns) :
             At(At(st.general.paths, st.all.pattern2general[n]),
                At(st.general.slots, st.all.pattern2general[n])) >= Len(nodes)
             => /\ st.all.patterns[n][1] < At(st.general.slots, st.all.pattern2general[n])
                /\ At(st.general.slots, st.all.pattern2general[n]) < st.all.patterns[n][2]


\* x lies in [0, 1]
InUnitInterval(x) == ~DLess(x, <<0, 1>>) /\ ~DLess(<<1, 1>>, x)

\* C18: a run whose eta, alpha or overlapThreshold lies outside [0, 1] fails
\* at the entry of the driver: distillation never starts and the graph stays
\* as it was built
C18_InvalidParametersNeverDistilled ==
    ~(/\ InUnitInterval(params.eta)
      /\ InUnitInterval(params.alpha)
      /\ InUnitInterval(params.overlapThreshold)) =>
        /\ pc = "idle"
        /\ calls = 0
        /\ paths = BuildInitialGraph(sequences, 0 - 1).paths
        /\ Len(nodes) = Len(BuildInitialGraph(sequences, 0 - 1).nodes)


\* C19: no node's parents list holds the same (parent id, position) entry
\* twice, in any state the index rebuild leaves behind
C19_ParentsHoldNoDuplicate ==
    \A n \in NodeIds :
        \A i, j \in 1..Len(At(nodes, n).parents) :
            i # j => At(nodes, n).parents[i] # At(nodes, n).parents[j]


\* the descent matrix of path p of the graph
DescentsOf(p) ==
    Force(ComputeConnectionMatrix(ThisGraph, At(paths, p)), LAMBDA connections :
    Force(ConnectionSizes(connections), LAMBDA sizes :
    Force(ComputeFlows(ThisGraph, sizes), LAMBDA flows : ComputeDescents(flows))))

\* the ranges of a sequence of ranges
RangeSet(ranges) == {ranges[k] : k \in 1..Len(ranges)}

\* [s..e] has a column c <= s with descent(s, c) < eta and a column c' >= e
\* with descent(e, c') < eta
DropsAtEnds(descents, s, e, eta) ==
    /\ \E c \in 0..s : DLess(M(descents, s, c), eta)
    /\ \E c \in e..(Len(descents) - 1) : DLess(M(descents, e, c), eta)

\* [s..e] has a column c >= s with descent(s - 1, c) < eta and a column
\* c' <= e with descent(e + 1, c') < eta
DropsBeyondEnds(descents, s, e, eta) ==
    /\ s >= 1
    /\ e + 1 < Len(descents)
    /\ \E c \in s..(Len(descents) - 1) : DLess(M(descents, s - 1, c), eta)
    /\ \E c \in 0..e : DLess(M(descents, e + 1, c), eta)

\* C20: the candidate patterns of the significance kernel are exactly the
\* subranges [s..e] of the path with a column c <= s where
\* descent(s, c) < eta and a column c' >= e where descent(e, c') < eta
C20_CandidatesDropAtEnds ==
    \A p \in PathIds : \A descents \in {DescentsOf(p)} :
        RangeSet(CandidatePatterns(descents, params.eta))
          = {r \in (0..(Len(descents) - 1)) \X (0..(Len(descents) - 1)) :
                r[1] <= r[2] /\ DropsAtEnds(descents, r[1], r[2], params.eta)}

\* C20, amended: the candidate patterns are exactly the subranges [s..e],
\* s < e, with a column c >= s where descent(s - 1, c) < eta and a column
\* c' <= e where descent(e + 1, c') < eta
C20_CandidatesDropBeyondEnds ==
    \A p \in PathIds : \A descents \in {DescentsOf(p)} :
        RangeSet(CandidatePatterns(descents, params.eta))
          = {r \in (0..(Len(descents) - 1)) \X (0..(Len(descents) - 1)) :
                r[1] < r[2] /\ DropsBeyondEnds(descents, r[1], r[2], params.eta)}

C20_SearchedPathWithCandidates ==
    /\ pc = "distill"
    /\ pathIndex > 0
    /\ \E p \in PathIds : Len(CandidatePatterns(DescentsOf(p), params.eta)) >= 2


\* the significance kernel on path p of the graph: the candidates, their
\* p-value pairs and what findSignificantPatterns returns
KernelOf(p) ==
    Force(ComputeConnectionMatrix(ThisGraph, At(paths, p)), LAMBDA connections :
    Force(ConnectionSizes(connections), LAMBDA sizes :
    Force(ComputeFlows(ThisGraph, sizes), LAMBDA flows :
    Force(ComputeDescents(flows), LAMBDA descents :
    Force(PvalueCache(sizes, flows, descents, params.eta), LAMBDA pvalueCache :
    Force(CandidatePatterns(descents, params.eta), LAMBDA cands :
          [cands |-> cands,
           pairs |-> Tabulate(LAMBDA i :
                        <<FindBestLeftDescentColumn(pvalueCache, descents,
                                                    At(cands, i), params.eta),
                          FindBestRightDescentColumn(pvalueCache, descents,
                                                     At(cands, i), params.eta)>>,
                        0, Len(cands)),
           found |-> FindSignificantPatterns(sizes, flows, descents, params.eta,
                                             QOf(params.alpha[1], params.alpha[2]))]))))))

\* candidate i of kernel result k has both p-values strictly below alpha
BelowAlpha(k, i) ==
    /\ QLess(k.pairs[i][1], QOf(params.alpha[1], params.alpha[2]))
    /\ QLess(k.pairs[i][2], QOf(params.alpha[1], params.alpha[2]))

\* C21: findSignificantPatterns returns exactly the candidates with both
\* p-values strictly below alpha; the first pattern of the list minimises
\* max(left_p, right_p) over them, and among those tied on it the first in
\* the order (start row, end row) is the one reported; stated of every
\* path the driver is about to search
C21_BestIsFirstLeastPair ==
    \A p \in {q \in PathIds : pc = "distill" /\ q = pathIndex} :
      \A k \in {KernelOf(p)} :
        /\ RangeSet(k.found.patterns)
              = {k.cands[i] : i \in {j \in 1..Len(k.cands) : BelowAlpha(k, j)}}
        /\ Len(k.found.patterns) = Cardinality(RangeSet(k.found.patterns))
        /\ k.found.patterns # <<>> =>
              \E b \in 1..Len(k.cands) :
                 /\ k.cands[b] = k.found.patterns[1]
                 /\ k.pairs[b] = k.found.pvalues[1]
                 /\ BelowAlpha(k, b)
                 /\ \A i \in 1..Len(k.cands) :
                       BelowAlpha(k, i) =>
                          /\ ~QLess(QMax(k.pairs[i][1], k.pairs[i][2]),
                                    QMax(k.pairs[b][1], k.pairs[b][2]))
                          /\ (i # b /\ ~QLess(QMax(k.pairs[b][1], k.pairs[b][2]),
                                               QMax(k.pairs[i][1], k.pairs[i][2])))
                             => \/ k.cands[b][1] < k.cands[i][1]
                                \/ /\ k.cands[b][1] = k.cands[i][1]
                                   /\ k.cands[b][2] < k.cands[i][2]

C21_TiedSignificantPatterns ==
    /\ pc = "distill"
    /\ pathIndex > 0
    /\ \E p \in PathIds : \E k \in {KernelOf(p)} :
          /\ Len(k.found.patterns) >= 2
          /\ \E i \in 2..Len(k.found.patterns) :
                ~SignificancePairLess(k.found.pvalues[1], k.found.pvalues[i])


\* the search paths handed to computeConnectionMatrix for the path at
\* pathIndex: the path itself and the path with an existing
\* EquivalenceClass put into one interior slot
ClassIds == {n \in NodeIds : NodeType(ThisGraph, n) = "EC"}

SearchPathsAt(p) ==
    {At(paths, p)}
    \cup {SetAt(At(paths, p), s, ec) : s \in 1..(Len(At(paths, p)) - 2), ec \in ClassIds}

\* the corpus positions (q, k) where the elements i..j of search_path match:
\* an EquivalenceClass matches any of its members, any other element itself
MatchingPositions(search_path, i, j) ==
    {c \in UNION {{<<q, k>> : k \in 0..(Len(At(paths, q)) - 1)} : q \in PathIds} :
        /\ c[2] + (j - i) < Len(At(paths, c[1]))
        /\ \A t \in 0..(j - i) :
              IF NodeType(ThisGraph, At(search_path, i + t)) = "EC"
              THEN Contains(Lexicon(ThisGraph, At(search_path, i + t)),
                            At(At(paths, c[1]), c[2] + t))
              ELSE At(At(paths, c[1]), c[2] + t) = At(search_path, i + t)}

\* C22: for 0 <= i <= j < L, connections[i][j] = connections[j][i] is the
\* set of corpus positions where the elements i..j of the search path
\* match, each position held once
C22_ConnectionsAreMatchingPositions ==
    \A p \in {q \in PathIds : pc = "distill" /\ q = pathIndex} :
      \A search_path \in SearchPathsAt(p) :
        \A connections \in {ComputeConnectionMatrix(ThisGraph, search_path)} :
          \A i \in 0..(Len(search_path) - 1) : \A j \in i..(Len(search_path) - 1) :
             /\ M(connections, i, j) = M(connections, j, i)
             /\ RangeSet(M(connections, i, j)) = MatchingPositions(search_path, i, j)
             /\ Len(M(connections, i, j)) = Cardinality(RangeSet(M(connections, i, j)))

C22_ClassMatchedThroughMember ==
    /\ pc = "distill"
    /\ pathIndex < Len(paths)
    /\ \E search_path \in SearchPathsAt(pathIndex) :
          \E i \in 0..(Len(search_path) - 2) :
             /\ NodeType(ThisGraph, At(search_path, i + 1)) = "EC"
             /\ Len(M(ComputeConnectionMatrix(ThisGraph, search_path), i, i + 1)) >= 2


\* the sequences that hold every element of the set S once
RECURSIVE Orders(_)
Orders(S) ==
    IF S = {} THEN {<<>>}
    ELSE UNION {{<<x>> \o t : t \in Orders(S \ {x})} : x \in S}

\* the connection lists a Pattern over the elements s..e of the path at
\* pathIndex can be rewired over, in every order
RewireInputs ==
    UNION {{[k |-> r[2] - r[1] + 1, connections |-> o] :
               o \in Orders(RangeSet(M(ComputeConnectionMatrix(ThisGraph,
                                                               At(paths, pathIndex)),
                                       r[2], r[1])))} :
           r \in {x \in (0..(Len(At(paths, pathIndex)) - 1))
                           \X (0..(Len(At(paths, pathIndex)) - 1)) : x[1] < x[2]}}

\* valid is the choice in ascending offset order: a connection is kept
\* unless a kept one of its path starts before it and less than k before
ChosenAscending(valid, connections, k) ==
    /\ RangeSet(valid)
         = {c \in RangeSet(connections) :
               ~\E a \in RangeSet(valid) :
                   a[1] = c[1] /\ a[2] < c[2] /\ c[2] <= a[2] + k - 1}
    /\ \A a, b \in 1..Len(valid) :
          (a < b /\ valid[a][1] = valid[b][1]) => valid[b][2] >= valid[a][2] + k

\* C23: the occurrences of a Pattern of length k that are rewired within one
\* path never overlap, in whatever order the connections are given: they
\* are chosen in ascending offset order and start at least k apart
C23_RewrittenOccurrencesApart ==
    (pc = "distill" /\ pathIndex < Len(paths)) =>
        \A in \in RewireInputs :
            in.connections # <<>> =>
                ChosenAscending(ValidConnections(in.connections, in.k),
                                in.connections, in.k)

C23_OverlappingOccurrenceDropped ==
    /\ pc = "distill"
    /\ pathIndex < Len(paths)
    /\ \E in \in RewireInputs :
          /\ Len(in.connections) >= 3
          /\ Len(ValidConnections(in.connections, in.k)) < Len(in.connections)


\* the calls rewire(connections, SignificantPattern) can get for the path at
\* pathIndex: the Pattern over its elements s..e with the connection list
\* of that range
RewireCalls ==
    {[sp |-> Slice(At(paths, pathIndex), r[1], r[2]),
      connections |-> GetRewirableConnections(
                         ComputeConnectionMatrix(ThisGraph, At(paths, pathIndex)), r)] :
       r \in {x \in (0..(Len(At(paths, pathIndex)) - 1))
                       \X (0..(Len(At(paths, pathIndex)) - 1)) : x[1] < x[2]}}

\* path with the ranges of length k that start at the given offsets replaced
\* by n, read from the left
RECURSIVE ReplacedFrom(_, _, _, _, _)
ReplacedFrom(path, pos, offsets, k, n) ==
    IF pos >= Len(path) THEN <<>>
    ELSE IF pos \in offsets
    THEN <<n>> \o ReplacedFrom(path, pos + k, offsets, k, n)
    ELSE <<At(path, pos)>> \o ReplacedFrom(path, pos + 1, offsets, k, n)

\* the offsets of the accepted occurrences in path q
AcceptedOffsets(call, q) ==
    {c[2] : c \in {d \in RangeSet(ValidConnections(call.connections, Len(call.sp))) :
                      d[1] = q}}

\* C24: after a new Pattern node n of length k is rewired, each path is its
\* previous value with every accepted occurrence range replaced by n and
\* every other element kept in order, shorter by (k - 1) times the number of
\* accepted occurrences in it; a path with none is unchanged
C24_PathsHoldPatternForOccurrences ==
    (pc = "distill" /\ pathIndex < Len(paths)) =>
        \A call \in RewireCalls :
            call.connections # <<>> =>
                \A G \in {RewireSP(ThisGraph, call.connections, call.sp)} :
                    \A q \in PathIds :
                        /\ At(G.paths, q)
                             = ReplacedFrom(At(paths, q), 0, AcceptedOffsets(call, q),
                                            Len(call.sp), Len(nodes))
                        /\ Len(At(G.paths, q))
                             = Len(At(paths, q))
                               - (Len(call.sp) - 1) * Cardinality(AcceptedOffsets(call, q))
                        /\ AcceptedOffsets(call, q) = {} => At(G.paths, q) = At(paths, q)

C24_PatternTwiceInOnePath ==
    \E q \in PathIds : \E n \in PatternIds :
        Cardinality({k \in 1..Len(At(paths, q)) : At(paths, q)[k] = n}) >= 2


\* the nodes of all parse trees below the roots, as <<tree, position>>
TreeNodes ==
    UNION {{<<p, k>> : k \in 1..(Len(At(trees, p)) - 1)} : p \in PathIds}

\* the value of tree node tn, and the values of its children in order
ValueOf(tn) == At(At(trees, tn[1]), tn[2]).value

ChildValues(tn) ==
    Tabulate(LAMBDA i : At(At(trees, tn[1]),
                           At(At(At(trees, tn[1]), tn[2]).children, i)).value,
             0, Len(At(At(trees, tn[1]), tn[2]).children))

\* C25: every tree node whose value is an EquivalenceClass node has exactly
\* one child, and the value of that child is a member of the class
C25_ClassNodeHasOneMemberChild ==
    \A tn \in TreeNodes :
        (ValueOf(tn) \in NodeIds /\ NodeType(ThisGraph, ValueOf(tn)) = "EC") =>
            /\ Len(ChildValues(tn)) = 1
            /\ Contains(Lexicon(ThisGraph, ValueOf(tn)), ChildValues(tn)[1])

C25_TreeHoldsClassNode ==
    /\ pc = "idle"
    /\ calls > 0
    /\ \E tn \in TreeNodes :
          ValueOf(tn) \in NodeIds /\ NodeType(ThisGraph, ValueOf(tn)) = "EC"


\* C26: for every path p the values of the direct children of the root of
\* trees[p], read in order, are paths[p]
C26_RootChildrenArePath ==
    \A p \in PathIds : ChildValues(<<p, 0>>) = At(paths, p)

C26_RootChildHoldsPattern ==
    \E p \in PathIds : \E n \in PatternIds :
        /\ Contains(ChildValues(<<p, 0>>), n)
        /\ Len(At(trees, p)) > Len(At(paths, p)) + 3


\* C27: the leaves of trees[p], read left to right, are the nodes of the
\* input sentence p: Start, the terminal of each token in order, End
C27_LeavesSpellSentence ==
    \A p \in PathIds :
        /\ Len(Leaves(At(trees, p))) = Len(sequences[p + 1]) + 2
        /\ NodeType(ThisGraph, Leaves(At(trees, p))[1]) = "Start"
        /\ NodeType(ThisGraph, Last(Leaves(At(trees, p)))) = "End"
        /\ \A k \in 1..Len(sequences[p + 1]) :
              /\ NodeType(ThisGraph, Leaves(At(trees, p))[k + 1]) = "Symbol"
              /\ Lexicon(ThisGraph, Leaves(At(trees, p))[k + 1]) = <<sequences[p + 1][k]>>

C27_SentenceReducedTwice ==
    /\ pc = "idle"
    /\ calls > 0
    /\ \E p \in PathIds : Len(At(paths, p)) <= Len(sequences[p + 1])


\* C28: every tree node whose value is a Pattern node n has as many children
\* as n's payload has elements, and the value of its i-th child is the i-th
\* element of the payload
C28_PatternNodeDerivesPayload ==
    \A tn \in TreeNodes :
        (ValueOf(tn) \in NodeIds /\ NodeType(ThisGraph, ValueOf(tn)) = "SP") =>
            ChildValues(tn) = Lexicon(ThisGraph, ValueOf(tn))

C28_PatternOverClassInTree ==
    \E tn \in TreeNodes :
        /\ ValueOf(tn) \in PatternIds
        /\ \E i \in 1..Len(ChildValues(tn)) : ChildValues(tn)[i] \in ClassIds


\* C29: a distill call on the graph an earlier call returned, with the same
\* parameters, adds no node and changes no unit, path, parse tree or count
C29_SecondCallChangesNothing ==
    [][calls' >= 2 =>
          /\ nodes' = nodes
          /\ heap' = heap
          /\ paths' = paths
          /\ trees' = trees
          /\ counts' = counts
          /\ corpusSize' = corpusSize]_vars

C29_ReturnedTwiceWithClass ==
    /\ pc = "idle"
    /\ calls = 2
    /\ ClassIds # {}


\* the <<row, column>> indices read for candidate range r on a path of
\* length L: findBestRightDescentColumn reads row r.second + 1 in the columns
\* 0..r.first and computeRightSignificance the row above it;
\* findBestLeftDescentColumn reads row r.first - 1 in the columns
\* r.second..L-1 and computeLeftSignificance the row below it
KernelReads(r, L) ==
    {<<r[2] + 1, i>> : i \in 0..r[1]} \cup {<<r[2], i>> : i \in 0..r[1]}
    \cup {<<r[1] - 1, i>> : i \in r[2]..(L - 1)} \cup {<<r[1], i>> : i \in r[2]..(L - 1)}

\* C30: every candidate range [s..e] of a path of length L has
\* 1 <= s < e <= L - 2, and every row and column index the kernel reads for
\* it from the connection, flow, descent and p-value matrices is in 0..L-1
C30_KernelReadsInBounds ==
    \A p \in PathIds : \A descents \in {DescentsOf(p)} :
        /\ Len(descents) = Len(At(paths, p))
        /\ \A r \in RangeSet(CandidatePatterns(descents, params.eta)) :
              /\ 1 <= r[1]
              /\ r[1] < r[2]
              /\ r[2] <= Len(At(paths, p)) - 2
              /\ KernelReads(r, Len(At(paths, p)))
                    \subseteq (0..(Len(At(paths, p)) - 1)) \X (0..(Len(At(paths, p)) - 1))

C30_CandidateSpansWholeSentence ==
    /\ pc = "distill"
    /\ pathIndex > 0
    /\ \E p \in PathIds :
          <<1, Len(At(paths, p)) - 2>>
             \in RangeSet(CandidatePatterns(DescentsOf(p), params.eta))

============================================================================
